---------------------------- MODULE Spec2Model ----------------------------
(***************************************************************************)
(* A model of the MOS 6502 core of nes-rs: the Cpu6502 struct of           *)
(* src/cpu_6502.rs (registers, fetch, addressing resolver, opcode table,   *)
(* tick, flag helpers, stack primitives).  The bus and the instruction     *)
(* handlers live in other modules of the crate (bus.rs, constants.rs,       *)
(* cpu_6502/opcodes_*.rs); they are modelled from the written              *)
(* specification of the core.                                              *)
(***************************************************************************)
EXTENDS Integers, Sequences, FiniteSets, TLC

VARIABLES
  bus,       \* Cpu6502.bus: address -> byte, kept as the set of non-zero cells
  a,         \* Cpu6502.a
  x,         \* Cpu6502.x
  y,         \* Cpu6502.y
  pc,        \* Cpu6502.pc  (u16)
  s,         \* Cpu6502.s   (u8)
  p,         \* Cpu6502.p   (u8)
  cycles,    \* Cpu6502.cycles (u8)
  panicked,  \* the thread has unwound from a panic!() or an overflow check
  why,       \* what panicked: "pc", "cycles", "address", "mode", or "none"
  build,     \* "debug" (overflow checks on) or "release" (two's complement wrap)
  halted,    \* history: an opcode dispatched to kil has been executed
  ticks,     \* history: number of tick() calls made
  calls,     \* history: number of direct helper calls made
  sumCycles, \* history: unbounded sum of base cycles and penalties of the ticks
  hist,      \* history: the most recent calls, oldest first
  frame      \* the call in progress (tick() between decode and handler, or a
             \* run_until() loop) and its position; Idle between calls

vars == <<bus, a, x, y, pc, s, p, cycles, panicked, why, build, halted, ticks,
          calls, sumCycles, hist, frame>>

---------------------------------------------------------------------------
(* Bounds of the model. *)

\* tick() calls explored from construction.
MaxTicks == 130
\* Direct calls of the stack primitives explored per behaviour.
MaxOps == 4
\* Direct calls of set_status_flag explored per behaviour, and the tick()
\* calls they are interleaved with.
MaxFlagCalls == 1
MaxFlagTicks == 12
\* Calls remembered in hist.
HistLen == 4
\* tick() calls explored per opcode byte, taken in two steps.
MaxDecodes == 1
\* Direct calls of get_operand_address explored per behaviour.
MaxResolves == 1
\* Calls of run_until explored per behaviour.
MaxRuns == 1
\* Direct calls of update_zero_and_negative_flag explored per behaviour.
MaxFlagUpdates == 1
\* Direct calls of update_carry_flag and update_overflow_flag per behaviour.
MaxAdcCalls == 2
\* Turns of the visualizer's main loop per behaviour.
MaxKeys == 2

---------------------------------------------------------------------------
(* Program constants. *)

STACK_PAGE == 1
ResetVector == 65532
IrqVector == 65534

Carry == 1
Zero == 2
InterruptDisable == 4
Decimal == 8
Break == 16
Push == 32
Overflow == 64
Negative == 128

StatusFlag ==
  {Carry, Zero, InterruptDisable, Decimal, Break, Push, Overflow, Negative}

Byte == 0..255

---------------------------------------------------------------------------
(* u8 / u16 arithmetic as the Rust operators compute it. *)

RECURSIVE BitAnd(_, _)
BitAnd(m, n) ==
  IF m = 0 \/ n = 0 THEN 0
  ELSE (IF m % 2 = 1 /\ n % 2 = 1 THEN 1 ELSE 0) + 2 * BitAnd(m \div 2, n \div 2)

RECURSIVE BitOr(_, _)
BitOr(m, n) ==
  IF m = 0 THEN n
  ELSE IF n = 0 THEN m
  ELSE (IF m % 2 = 1 \/ n % 2 = 1 THEN 1 ELSE 0) + 2 * BitOr(m \div 2, n \div 2)

RECURSIVE BitXor(_, _)
BitXor(m, n) ==
  IF m = 0 THEN n
  ELSE IF n = 0 THEN m
  ELSE (IF m % 2 # n % 2 THEN 1 ELSE 0) + 2 * BitXor(m \div 2, n \div 2)

\* !v on a u8
BitNot8(v) == 255 - v

\* u8::saturating_add
saturating_add8(m, n) == IF m + n > 255 THEN 255 ELSE m + n

wrapping_add8(m, n) == (m + n) % 256
wrapping_sub8(m, n) == (m - n) % 256
wrapping_add16(m, n) == (m + n) % 65536
wrapping_sub16(m, n) == (m - n) % 65536

\* u16::from_le_bytes([lo, hi])
from_le_bytes(lo, hi) == lo + 256 * hi
\* u16::to_le_bytes(v) = [lo, hi]
to_le_bytes(v) == <<v % 256, v \div 256>>

\* `as i8 as u16`: sign extension of a byte to 16 bits
\* `value as u16` of the unsigned byte: zero extension.
u8_as_u16(v) == v

i8_as_u16(v) == IF v >= 128 THEN v + 65280 ELSE v

---------------------------------------------------------------------------
(* The bus: a flat byte-addressed store, little-endian 16-bit access.  A    *)
(* cell that is absent from the function holds 0.                           *)

read_u8(b, addr) == IF addr \in DOMAIN b THEN b[addr] ELSE 0

read_u16(b, addr) ==
  from_le_bytes(read_u8(b, addr), read_u8(b, wrapping_add16(addr, 1)))

set_u8(b, addr, v) ==
  LET d == IF v = 0 THEN DOMAIN b \ {addr} ELSE DOMAIN b \cup {addr}
  IN  [c \in d |-> IF c = addr THEN v ELSE b[c]]

set_u16(b, addr, v) ==
  set_u8(set_u8(b, addr, to_le_bytes(v)[1]),
         wrapping_add16(addr, 1), to_le_bytes(v)[2])

---------------------------------------------------------------------------
(* The CPU as a value, so that the steps of one call compose. *)

(* Besides the fields of the struct the value carries `panicked` and two     *)
(* history fields: `total`, the cycles added so far as an unbounded number, *)
(* and `touched`, the bus addresses the stack primitives of the current     *)
(* call have read or written.                                               *)
Cpu ==
  [bus |-> bus, a |-> a, x |-> x, y |-> y, pc |-> pc, s |-> s, p |-> p,
   cycles |-> cycles, panicked |-> panicked, why |-> why, total |-> sumCycles,
   touched |-> {}]

\* `self.pc += n`: an overflow check in a debug build, a wrap in release.
AddPc(c, n) ==
  IF c.pc + n > 65535 /\ build = "debug"
  THEN [c EXCEPT !.panicked = TRUE, !.why = "pc"]
  ELSE [c EXCEPT !.pc = (c.pc + n) % 65536]

\* `self.cycles += n` on the u8 counter.
AddCycles(c, n) ==
  IF c.cycles + n > 255 /\ build = "debug"
  THEN [c EXCEPT !.panicked = TRUE, !.why = "cycles"]
  ELSE [c EXCEPT !.cycles = (c.cycles + n) % 256, !.total = c.total + n]

\* new() with the start address taken from the IRQ/BRK vector.
new_from_irq_vector(b) ==
  [bus |-> b, a |-> 0, x |-> 0, y |-> 0, pc |-> read_u16(b, IrqVector),
   s |-> 255, p |-> 52, cycles |-> 0, panicked |-> FALSE, why |-> "none",
   total |-> 0,
   touched |-> {}]

\* new with the stack pointer a hardware reset leaves.
new_reset_stack(b) ==
  [bus |-> b, a |-> 0, x |-> 0, y |-> 0, pc |-> read_u16(b, ResetVector),
   s |-> 253, p |-> 52, cycles |-> 0, panicked |-> FALSE, why |-> "none",
   total |-> 0,
   touched |-> {}]

new(b) ==
  [bus |-> b, a |-> 0, x |-> 0, y |-> 0, pc |-> read_u16(b, ResetVector),
   s |-> 255, p |-> 52, cycles |-> 0, panicked |-> FALSE, why |-> "none",
   total |-> 0,
   touched |-> {}]

peek_u8(c) == read_u8(c.bus, c.pc)

\* next_u8 without `self.pc += 1`.
next_u8_keeps_pc(c) == [cpu |-> c, value |-> read_u8(c.bus, c.pc)]

next_u8(c) == [cpu |-> AddPc(c, 1), value |-> read_u8(c.bus, c.pc)]

\* next_u16 with `self.pc += 1`.
next_u16_one_byte(c) == [cpu |-> AddPc(c, 1), value |-> read_u16(c.bus, c.pc)]

next_u16(c) == [cpu |-> AddPc(c, 2), value |-> read_u16(c.bus, c.pc)]

---------------------------------------------------------------------------
(* The opcode table of tick(): byte -> <<handler, mode, cycles, extra>>,    *)
(* one entry per arm of the match, in source order.                         *)

OpTable ==
  <<
  <<"brk", "non", 7, 0>>, <<"ora", "izx", 6, 0>>, <<"kil", "non", 0, 0>>, <<"slo", "izx", 8, 0>>,
  <<"nop", "zp", 3, 0>>, <<"ora", "zp", 3, 0>>, <<"asl", "zp", 5, 0>>, <<"slo", "zp", 5, 0>>,
  <<"php", "non", 3, 0>>, <<"ora", "imm", 2, 0>>, <<"asl", "non", 2, 0>>, <<"anc", "imm", 2, 0>>,
  <<"nop", "abs", 4, 0>>, <<"ora", "abs", 4, 0>>, <<"asl", "abs", 6, 0>>, <<"slo", "abs", 6, 0>>,
  <<"bpl", "rel", 2, 0>>, <<"ora", "izy", 5, 0>>, <<"kil", "non", 0, 0>>, <<"slo", "izy", 8, 0>>,
  <<"nop", "zpx", 4, 0>>, <<"ora", "zpx", 4, 0>>, <<"asl", "zpx", 6, 0>>, <<"slo", "zpx", 6, 0>>,
  <<"clc", "non", 2, 0>>, <<"ora", "aby", 4, 0>>, <<"nop", "non", 2, 0>>, <<"slo", "aby", 7, 0>>,
  <<"nop", "abx", 4, 0>>, <<"ora", "abx", 4, 0>>, <<"asl", "abx", 7, 0>>, <<"slo", "abx", 7, 0>>,
  <<"jsr", "abs", 6, 0>>, <<"and", "izx", 6, 0>>, <<"kil", "non", 0, 0>>, <<"rla", "izx", 8, 0>>,
  <<"bit", "zp", 3, 0>>, <<"and", "zp", 3, 0>>, <<"rol", "zp", 5, 0>>, <<"rla", "zp", 5, 0>>,
  <<"plp", "non", 4, 0>>, <<"and", "imm", 2, 0>>, <<"rol", "non", 2, 0>>, <<"anc", "imm", 2, 0>>,
  <<"bit", "abs", 4, 0>>, <<"and", "abs", 4, 0>>, <<"rol", "abs", 6, 0>>, <<"rla", "abs", 6, 0>>,
  <<"bmi", "rel", 2, 0>>, <<"and", "izy", 5, 0>>, <<"kil", "non", 0, 0>>, <<"rla", "izy", 8, 0>>,
  <<"nop", "zpx", 4, 0>>, <<"and", "zpx", 4, 0>>, <<"rol", "zpx", 6, 0>>, <<"rla", "zpx", 6, 0>>,
  <<"sec", "non", 2, 0>>, <<"and", "aby", 4, 0>>, <<"nop", "non", 2, 0>>, <<"rla", "aby", 7, 0>>,
  <<"nop", "abx", 4, 0>>, <<"and", "abx", 4, 0>>, <<"rol", "abx", 7, 0>>, <<"rla", "abx", 7, 0>>,
  <<"rti", "non", 6, 0>>, <<"eor", "izx", 6, 0>>, <<"kil", "non", 0, 0>>, <<"sre", "izx", 8, 0>>,
  <<"nop", "zp", 3, 0>>, <<"eor", "zp", 3, 0>>, <<"lsr", "zp", 5, 0>>, <<"sre", "zp", 5, 0>>,
  <<"pha", "non", 3, 0>>, <<"eor", "imm", 2, 0>>, <<"lsr", "non", 2, 0>>, <<"alr", "imm", 2, 0>>,
  <<"jmp", "abs", 3, 0>>, <<"eor", "abs", 4, 0>>, <<"lsr", "abs", 6, 0>>, <<"sre", "abs", 6, 0>>,
  <<"bvc", "rel", 2, 0>>, <<"eor", "izy", 5, 0>>, <<"kil", "non", 0, 0>>, <<"sre", "izy", 8, 0>>,
  <<"nop", "zpx", 4, 0>>, <<"eor", "zpx", 4, 0>>, <<"lsr", "zpx", 6, 0>>, <<"sre", "zpx", 6, 0>>,
  <<"cli", "non", 2, 0>>, <<"eor", "aby", 4, 0>>, <<"nop", "non", 2, 0>>, <<"sre", "aby", 7, 0>>,
  <<"nop", "abx", 4, 0>>, <<"eor", "abx", 4, 0>>, <<"lsr", "abx", 7, 0>>, <<"sre", "abx", 7, 0>>,
  <<"rts", "non", 6, 0>>, <<"adc", "izx", 6, 0>>, <<"kil", "non", 0, 0>>, <<"rra", "izx", 8, 0>>,
  <<"nop", "zp", 3, 0>>, <<"adc", "zp", 3, 0>>, <<"ror", "zp", 5, 0>>, <<"rra", "zp", 5, 0>>,
  <<"pla", "non", 4, 0>>, <<"adc", "imm", 2, 0>>, <<"ror", "non", 2, 0>>, <<"arr", "imm", 2, 0>>,
  <<"jmp", "ind", 5, 0>>, <<"adc", "abs", 4, 0>>, <<"ror", "abs", 6, 0>>, <<"rra", "abs", 6, 0>>,
  <<"bvs", "rel", 2, 0>>, <<"adc", "izy", 5, 0>>, <<"kil", "non", 0, 0>>, <<"rra", "izy", 8, 0>>,
  <<"nop", "zpx", 4, 0>>, <<"adc", "zpx", 4, 0>>, <<"ror", "zpx", 6, 0>>, <<"rra", "zpx", 6, 0>>,
  <<"sei", "non", 2, 0>>, <<"adc", "aby", 4, 0>>, <<"nop", "non", 2, 0>>, <<"rra", "aby", 7, 0>>,
  <<"nop", "abx", 4, 0>>, <<"adc", "abx", 4, 0>>, <<"ror", "abx", 7, 0>>, <<"rra", "abx", 7, 0>>,
  <<"nop", "imm", 2, 0>>, <<"sta", "izx", 6, 0>>, <<"nop", "imm", 2, 0>>, <<"sax", "izx", 6, 0>>,
  <<"sty", "zp", 3, 0>>, <<"sta", "zp", 3, 0>>, <<"stx", "zp", 3, 0>>, <<"sax", "zp", 3, 0>>,
  <<"dey", "non", 2, 0>>, <<"nop", "imm", 2, 0>>, <<"txa", "non", 2, 0>>, <<"xaa", "imm", 2, 0>>,
  <<"sty", "abs", 4, 0>>, <<"sta", "abs", 4, 0>>, <<"stx", "abs", 4, 0>>, <<"sax", "abs", 4, 0>>,
  <<"bcc", "rel", 2, 0>>, <<"sta", "izy", 6, 0>>, <<"kil", "non", 0, 0>>, <<"ahx", "izy", 6, 0>>,
  <<"sty", "zpx", 4, 0>>, <<"sta", "zpx", 4, 0>>, <<"stx", "zpy", 4, 0>>, <<"sax", "zpy", 4, 0>>,
  <<"tya", "non", 2, 0>>, <<"sta", "aby", 5, 0>>, <<"txs", "non", 2, 0>>, <<"tas", "aby", 5, 0>>,
  <<"shy", "abx", 5, 0>>, <<"sta", "abx", 5, 0>>, <<"shx", "aby", 5, 0>>, <<"ahx", "aby", 5, 0>>,
  <<"ldy", "imm", 2, 0>>, <<"lda", "izx", 6, 0>>, <<"ldx", "imm", 2, 0>>, <<"lax", "izx", 6, 0>>,
  <<"ldy", "zp", 3, 0>>, <<"lda", "zp", 3, 0>>, <<"ldx", "zp", 3, 0>>, <<"lax", "zp", 3, 0>>,
  <<"tay", "non", 2, 0>>, <<"lda", "imm", 2, 0>>, <<"tax", "non", 2, 0>>, <<"lax", "imm", 2, 0>>,
  <<"ldy", "abs", 4, 0>>, <<"lda", "abs", 4, 0>>, <<"ldx", "abs", 4, 0>>, <<"lax", "abs", 4, 0>>,
  <<"bcs", "rel", 2, 0>>, <<"lda", "izy", 5, 0>>, <<"kil", "non", 0, 0>>, <<"lax", "izy", 5, 0>>,
  <<"ldy", "zpx", 4, 0>>, <<"lda", "zpx", 4, 0>>, <<"ldx", "zpy", 4, 0>>, <<"lax", "zpy", 4, 0>>,
  <<"clv", "non", 2, 0>>, <<"lda", "aby", 4, 0>>, <<"tsx", "non", 2, 0>>, <<"las", "aby", 4, 0>>,
  <<"ldy", "abx", 4, 0>>, <<"lda", "abx", 4, 0>>, <<"ldx", "aby", 4, 0>>, <<"lax", "aby", 4, 0>>,
  <<"cpy", "imm", 2, 0>>, <<"cmp", "izx", 6, 0>>, <<"nop", "imm", 2, 0>>, <<"dcp", "izx", 8, 0>>,
  <<"cpy", "zp", 3, 0>>, <<"cmp", "zp", 3, 0>>, <<"dec", "zp", 5, 0>>, <<"dcp", "zp", 5, 0>>,
  <<"iny", "non", 2, 0>>, <<"cmp", "imm", 2, 0>>, <<"dex", "non", 2, 0>>, <<"axs", "imm", 2, 0>>,
  <<"cpy", "abs", 4, 0>>, <<"cmp", "abs", 4, 0>>, <<"dec", "abs", 6, 0>>, <<"dcp", "abs", 6, 0>>,
  <<"bne", "rel", 2, 0>>, <<"cmp", "izy", 5, 0>>, <<"kil", "non", 0, 0>>, <<"dcp", "izy", 8, 0>>,
  <<"nop", "zpx", 4, 0>>, <<"cmp", "zpx", 4, 0>>, <<"dec", "zpx", 6, 0>>, <<"dcp", "zpx", 6, 0>>,
  <<"cld", "non", 2, 0>>, <<"cmp", "aby", 4, 0>>, <<"nop", "non", 2, 0>>, <<"dcp", "aby", 7, 0>>,
  <<"nop", "abx", 4, 0>>, <<"cmp", "abx", 4, 0>>, <<"dec", "abx", 7, 0>>, <<"dcp", "abx", 7, 0>>,
  <<"cpx", "imm", 2, 0>>, <<"sbc", "izx", 6, 0>>, <<"nop", "imm", 2, 0>>, <<"isc", "izx", 8, 0>>,
  <<"cpx", "zp", 3, 0>>, <<"sbc", "zp", 3, 0>>, <<"inc", "zp", 5, 0>>, <<"isc", "zp", 5, 0>>,
  <<"inx", "non", 2, 0>>, <<"sbc", "imm", 2, 0>>, <<"nop", "non", 2, 0>>, <<"sbc", "imm", 2, 0>>,
  <<"cpx", "abs", 4, 0>>, <<"sbc", "abs", 4, 0>>, <<"inc", "abs", 6, 0>>, <<"isc", "abs", 6, 0>>,
  <<"beq", "rel", 2, 0>>, <<"sbc", "izy", 5, 0>>, <<"kil", "non", 0, 0>>, <<"isc", "izy", 8, 0>>,
  <<"nop", "zpx", 4, 0>>, <<"sbc", "zpx", 4, 0>>, <<"inc", "zpx", 6, 0>>, <<"isc", "zpx", 6, 0>>,
  <<"sed", "non", 2, 0>>, <<"sbc", "aby", 4, 0>>, <<"nop", "non", 2, 0>>, <<"isc", "aby", 7, 0>>,
  <<"nop", "abx", 4, 0>>, <<"sbc", "abx", 4, 0>>, <<"inc", "abx", 7, 0>>, <<"isc", "abx", 7, 0>>
  >>

\* The `$byte` pattern of each arm, in the order of the table.
OpBytes ==
  <<
  0, 1, 2, 3, 4, 5, 6, 7, 8, 9, 10, 11, 12, 13, 14, 15,
  16, 17, 18, 19, 20, 21, 22, 23, 24, 25, 26, 27, 28, 29, 30, 31,
  32, 33, 34, 35, 36, 37, 38, 39, 40, 41, 42, 43, 44, 45, 46, 47,
  48, 49, 50, 51, 52, 53, 54, 55, 56, 57, 58, 59, 60, 61, 62, 63,
  64, 65, 66, 67, 68, 69, 70, 71, 72, 73, 74, 75, 76, 77, 78, 79,
  80, 81, 82, 83, 84, 85, 86, 87, 88, 89, 90, 91, 92, 93, 94, 95,
  96, 97, 98, 99, 100, 101, 102, 103, 104, 105, 106, 107, 108, 109, 110, 111,
  112, 113, 114, 115, 116, 117, 118, 119, 120, 121, 122, 123, 124, 125, 126, 127,
  128, 129, 130, 131, 132, 133, 134, 135, 136, 137, 138, 139, 140, 141, 142, 143,
  144, 145, 146, 147, 148, 149, 150, 151, 152, 153, 154, 155, 156, 157, 158, 159,
  160, 161, 162, 163, 164, 165, 166, 167, 168, 169, 170, 171, 172, 173, 174, 175,
  176, 177, 178, 179, 180, 181, 182, 183, 184, 185, 186, 187, 188, 189, 190, 191,
  192, 193, 194, 195, 196, 197, 198, 199, 200, 201, 202, 203, 204, 205, 206, 207,
  208, 209, 210, 211, 212, 213, 214, 215, 216, 217, 218, 219, 220, 221, 222, 223,
  224, 225, 226, 227, 228, 229, 230, 231, 232, 233, 234, 235, 236, 237, 238, 239,
  240, 241, 242, 243, 244, 245, 246, 247, 248, 249, 250, 251, 252, 253, 254, 255
  >>

\* The arms whose pattern is `byte` or the pattern with bit 7 flipped.
MatchingArmsLow7(byte) ==
  {i \in DOMAIN OpBytes : OpBytes[i] % 128 = byte % 128}

\* The arms of the match whose pattern is `byte`.
MatchingArms(byte) == {i \in DOMAIN OpBytes : OpBytes[i] = byte}

\* `match $opcode { ... }`: the first arm that matches is the one taken.
OpEntry(byte) ==
  LET arms == MatchingArms(byte)
      i == CHOOSE k \in arms : \A j \in arms : k <= j
  IN  [name |-> OpTable[i][1], mode |-> OpTable[i][2],
       cycles |-> OpTable[i][3], extra |-> OpTable[i][4]]

mode_to_type(m) ==
  CASE m = "abs" -> "Absolute"
    [] m = "abx" -> "AbsoluteIndexedX"
    [] m = "aby" -> "AbsoluteIndexedY"
    [] m = "imm" -> "Immediate"
    [] m = "imp" -> "Implied"
    [] m = "ind" -> "Indirect"
    [] m = "izx" -> "IndirectX"
    [] m = "izy" -> "IndirectY"
    [] m = "rel" -> "Relative"
    [] m = "zp"  -> "ZeroPage"
    [] m = "zpx" -> "ZeroPageX"
    [] m = "zpy" -> "ZeroPageY"
    [] m = "non" -> "None"

---------------------------------------------------------------------------
(* The addressing resolver. *)

incur_extra_cycle_on_page_boundary(c, base_address, offset_address, extra_cycles) ==
  IF to_le_bytes(base_address)[2] # to_le_bytes(offset_address)[2]
  THEN AddCycles(c, extra_cycles)
  ELSE c

\* `base_address + index as u16`: unchecked u16 addition.
IndexedAddress(c, base_address, index, page_boundary_cycle) ==
  IF base_address + index > 65535 /\ build = "debug"
  THEN [cpu |-> [c EXCEPT !.panicked = TRUE, !.why = "address"], address |-> 0]
  ELSE LET offset_address == (base_address + index) % 65536
       IN  [cpu |-> incur_extra_cycle_on_page_boundary(
                      c, base_address, offset_address, page_boundary_cycle),
            address |-> offset_address]

\* Returns the CPU after the operand fetch and the effective address.  A
\* panicked CPU carries no meaningful address.
get_operand_address(c, mode, page_boundary_cycle) ==
  CASE mode = "Absolute" ->
         LET f == next_u16(c) IN [cpu |-> f.cpu, address |-> f.value]
    [] mode = "AbsoluteIndexedX" ->
         LET f == next_u16(c)
         IN  IF f.cpu.panicked THEN [cpu |-> f.cpu, address |-> 0]
             ELSE IndexedAddress(f.cpu, f.value, c.x, page_boundary_cycle)
    [] mode = "AbsoluteIndexedY" ->
         LET f == next_u16(c)
         IN  IF f.cpu.panicked THEN [cpu |-> f.cpu, address |-> 0]
             ELSE IndexedAddress(f.cpu, f.value, c.y, page_boundary_cycle)
    [] mode = "Immediate" ->
         [cpu |-> AddPc(c, 1), address |-> c.pc]
    [] mode = "Implied" ->
         [cpu |-> [c EXCEPT !.panicked = TRUE, !.why = "mode"], address |-> 0]
    [] mode = "Indirect" ->
         LET f == next_u16(c)
         IN  [cpu |-> f.cpu, address |-> read_u16(c.bus, f.value)]
    [] mode = "IndirectX" ->
         LET f == next_u8(c)
         IN  [cpu |-> f.cpu, address |-> wrapping_add8(f.value, c.x)]
    [] mode = "IndirectY" ->
         LET f == next_u8(c)
         IN  [cpu |-> f.cpu, address |-> wrapping_add8(f.value, c.y)]
    [] mode = "Relative" ->
         LET f == next_u8(c)
             base_address == f.cpu.pc
             offset_address == wrapping_add16(f.cpu.pc, i8_as_u16(f.value))
         IN  IF f.cpu.panicked THEN [cpu |-> f.cpu, address |-> 0]
             ELSE [cpu |-> incur_extra_cycle_on_page_boundary(
                             f.cpu, base_address, offset_address,
                             page_boundary_cycle),
                   address |-> offset_address]
    [] mode = "ZeroPage" ->
         LET f == next_u8(c) IN [cpu |-> f.cpu, address |-> f.value]
    [] mode = "ZeroPageX" ->
         LET f == next_u8(c)
         IN  [cpu |-> f.cpu, address |-> wrapping_add8(f.value, c.x)]
    [] mode = "ZeroPageY" ->
         LET f == next_u8(c)
         IN  [cpu |-> f.cpu, address |-> wrapping_add8(f.value, c.y)]
    [] mode = "None" ->
         [cpu |-> [c EXCEPT !.panicked = TRUE, !.why = "mode"], address |-> 0]

get_operand(c, mode, extra_cycle) ==
  LET r == get_operand_address(c, mode, extra_cycle)
  IN  [cpu |-> r.cpu, address |-> r.address,
       value |-> read_u8(c.bus, r.address)]

---------------------------------------------------------------------------
(* Status flag helpers. *)

\* set_status_flag with `=` for `|=`.
set_status_flag_assign(c, status_flag, value) ==
  IF value
  THEN [c EXCEPT !.p = status_flag]
  ELSE [c EXCEPT !.p = BitAnd(c.p, BitNot8(status_flag))]

set_status_flag(c, status_flag, value) ==
  IF value
  THEN [c EXCEPT !.p = BitOr(c.p, status_flag)]
  ELSE [c EXCEPT !.p = BitAnd(c.p, BitNot8(status_flag))]

is_status_flag_set(c, status_flag) == BitAnd(c.p, status_flag) = status_flag

\* update_zero_and_negative_flag that raises the two flags and never lowers
\* them.
update_zero_and_negative_flag_set_only(c, value) ==
  LET z == IF value = 0 THEN set_status_flag(c, Zero, TRUE) ELSE c
  IN  IF BitAnd(value, 128) = 128 THEN set_status_flag(z, Negative, TRUE)
      ELSE z

update_zero_and_negative_flag(c, value) ==
  set_status_flag(set_status_flag(c, Zero, value = 0),
                  Negative, BitAnd(value, 128) = 128)

update_carry_flag(c, result) ==
  LET carry == 256
  IN  set_status_flag(c, Carry, BitAnd(result, carry) = carry)

\* update_overflow_flag called after the accumulator took the result.
update_overflow_flag_after_store(c, operand, result) ==
  LET bit_7_mask == 128
      does_overflow ==
        BitAnd(bit_7_mask,
               BitAnd(BitNot8(BitXor(result, operand)),
                      BitXor(result, result))) = bit_7_mask
  IN  set_status_flag(c, Overflow, does_overflow)

update_overflow_flag(c, operand, result) ==
  LET bit_7_mask == 128
      does_overflow ==
        BitAnd(bit_7_mask,
               BitAnd(BitNot8(BitXor(c.a, operand)),
                      BitXor(c.a, result))) = bit_7_mask
  IN  set_status_flag(c, Overflow, does_overflow)

get_carry(c) == BitAnd(c.p, Carry)

---------------------------------------------------------------------------
(* Stack primitives. *)

\* The cells a 16-bit bus access at addr reads or writes.
Cells16(addr) == {addr, wrapping_add16(addr, 1)}

\* push_stack_u8 with `self.s -= 1` for wrapping_sub.
push_stack_u8_checked_sub(c, value) ==
  LET address == from_le_bytes(c.s, STACK_PAGE)
      c1 == [c EXCEPT !.bus = set_u8(c.bus, address, value),
                      !.touched = c.touched \cup {address}]
  IN  IF c.s = 0 /\ build = "debug"
      THEN [c1 EXCEPT !.panicked = TRUE, !.why = "stack"]
      ELSE [c1 EXCEPT !.s = wrapping_sub8(c.s, 1)]

push_stack_u8(c, value) ==
  LET address == from_le_bytes(c.s, STACK_PAGE)
  IN  [c EXCEPT !.bus = set_u8(c.bus, address, value),
                !.s = wrapping_sub8(c.s, 1),
                !.touched = c.touched \cup {address}]

\* pull_stack_u8 reading the cell before moving the stack pointer.
pull_stack_u8_read_first(c) ==
  LET address == from_le_bytes(c.s, STACK_PAGE)
  IN  [cpu |-> [c EXCEPT !.s = wrapping_add8(c.s, 1),
                         !.touched = c.touched \cup {address}],
       value |-> read_u8(c.bus, address)]

pull_stack_u8(c) ==
  LET sp == wrapping_add8(c.s, 1)
      address == from_le_bytes(sp, STACK_PAGE)
  IN  [cpu |-> [c EXCEPT !.s = sp, !.touched = c.touched \cup {address}],
       value |-> read_u8(c.bus, address)]

\* push_stack_u16 writing one cell lower, at S - 1 and S.
push_stack_u16_below(c, value) ==
  LET address == from_le_bytes(wrapping_sub8(c.s, 1), STACK_PAGE)
  IN  [c EXCEPT !.bus = set_u16(c.bus, address, value),
                !.s = wrapping_sub8(c.s, 2),
                !.touched = c.touched \cup Cells16(address)]

push_stack_u16(c, value) ==
  LET address == from_le_bytes(c.s, STACK_PAGE)
  IN  [c EXCEPT !.bus = set_u16(c.bus, address, value),
                !.s = wrapping_sub8(c.s, 2),
                !.touched = c.touched \cup Cells16(address)]

\* pull_stack_u16 moving the stack pointer by one.
pull_stack_u16_by_one(c) ==
  LET sp == wrapping_add8(c.s, 1)
      address == from_le_bytes(sp, 1)
  IN  [cpu |-> [c EXCEPT !.s = sp, !.touched = c.touched \cup Cells16(address)],
       value |-> read_u16(c.bus, address)]

pull_stack_u16(c) ==
  LET sp == wrapping_add8(c.s, 2)
      address == from_le_bytes(sp, 1)
  IN  [cpu |-> [c EXCEPT !.s = sp, !.touched = c.touched \cup Cells16(address)],
       value |-> read_u16(c.bus, address)]

---------------------------------------------------------------------------
(* Instruction handlers: handler(cpu, mode, extra_cycle), called by tick()  *)
(* after the opcode fetch and the base cycles.                              *)

kil(c, mode, extra_cycle) == c

nop(c, mode, extra_cycle) ==
  IF mode = "None" THEN c ELSE get_operand_address(c, mode, extra_cycle).cpu

jmp(c, mode, extra_cycle) ==
  LET r == get_operand_address(c, mode, extra_cycle)
  IN  IF r.cpu.panicked THEN r.cpu ELSE [r.cpu EXCEPT !.pc = r.address]

jsr(c, mode, extra_cycle) ==
  LET r == get_operand_address(c, mode, extra_cycle)
  IN  IF r.cpu.panicked THEN r.cpu
      ELSE [push_stack_u16(r.cpu, wrapping_sub16(r.cpu.pc, 1))
              EXCEPT !.pc = r.address]

rts(c, mode, extra_cycle) ==
  LET f == pull_stack_u16(c)
  IN  [f.cpu EXCEPT !.pc = wrapping_add16(f.value, 1)]

brk(c, mode, extra_cycle) ==
  LET c1 == push_stack_u16(c, wrapping_add16(c.pc, 1))
      c2 == push_stack_u8(c1, BitOr(c1.p, BitOr(Break, Push)))
      c3 == set_status_flag(c2, InterruptDisable, TRUE)
  IN  [c3 EXCEPT !.pc = read_u16(c3.bus, IrqVector)]

\* A pulled status byte as it lands in P: bit 5 forced, bit 4 cleared.
PulledStatus(v) == BitOr(BitAnd(v, BitNot8(Break)), Push)

rti(c, mode, extra_cycle) ==
  LET f == pull_stack_u8(c)
      g == pull_stack_u16([f.cpu EXCEPT !.p = PulledStatus(f.value)])
  IN  [g.cpu EXCEPT !.pc = g.value]

php(c, mode, extra_cycle) == push_stack_u8(c, BitOr(c.p, BitOr(Break, Push)))

plp(c, mode, extra_cycle) ==
  LET f == pull_stack_u8(c) IN [f.cpu EXCEPT !.p = PulledStatus(f.value)]

pha(c, mode, extra_cycle) == push_stack_u8(c, c.a)

pla(c, mode, extra_cycle) ==
  LET f == pull_stack_u8(c)
  IN  update_zero_and_negative_flag([f.cpu EXCEPT !.a = f.value], f.value)

clc(c, mode, extra_cycle) == set_status_flag(c, Carry, FALSE)
sec(c, mode, extra_cycle) == set_status_flag(c, Carry, TRUE)
cli(c, mode, extra_cycle) == set_status_flag(c, InterruptDisable, FALSE)
sei(c, mode, extra_cycle) == set_status_flag(c, InterruptDisable, TRUE)
clv(c, mode, extra_cycle) == set_status_flag(c, Overflow, FALSE)
cld(c, mode, extra_cycle) == set_status_flag(c, Decimal, FALSE)
sed(c, mode, extra_cycle) == set_status_flag(c, Decimal, TRUE)

lda(c, mode, extra_cycle) ==
  LET r == get_operand(c, mode, extra_cycle)
  IN  IF r.cpu.panicked THEN r.cpu
      ELSE update_zero_and_negative_flag([r.cpu EXCEPT !.a = r.value], r.value)

ldx(c, mode, extra_cycle) ==
  LET r == get_operand(c, mode, extra_cycle)
  IN  IF r.cpu.panicked THEN r.cpu
      ELSE update_zero_and_negative_flag([r.cpu EXCEPT !.x = r.value], r.value)

ldy(c, mode, extra_cycle) ==
  LET r == get_operand(c, mode, extra_cycle)
  IN  IF r.cpu.panicked THEN r.cpu
      ELSE update_zero_and_negative_flag([r.cpu EXCEPT !.y = r.value], r.value)

\* STA / STX / STY: store a register at the effective address, no flags.
Store(c, mode, extra_cycle, value) ==
  LET r == get_operand_address(c, mode, extra_cycle)
  IN  IF r.cpu.panicked THEN r.cpu
      ELSE [r.cpu EXCEPT !.bus = set_u8(r.cpu.bus, r.address, value)]

sta(c, mode, extra_cycle) == Store(c, mode, extra_cycle, c.a)
stx(c, mode, extra_cycle) == Store(c, mode, extra_cycle, c.x)
sty(c, mode, extra_cycle) == Store(c, mode, extra_cycle, c.y)

tax(c, mode, extra_cycle) ==
  update_zero_and_negative_flag([c EXCEPT !.x = c.a], c.a)
tay(c, mode, extra_cycle) ==
  update_zero_and_negative_flag([c EXCEPT !.y = c.a], c.a)
txa(c, mode, extra_cycle) ==
  update_zero_and_negative_flag([c EXCEPT !.a = c.x], c.x)
tya(c, mode, extra_cycle) ==
  update_zero_and_negative_flag([c EXCEPT !.a = c.y], c.y)
tsx(c, mode, extra_cycle) ==
  update_zero_and_negative_flag([c EXCEPT !.x = c.s], c.s)
txs(c, mode, extra_cycle) == [c EXCEPT !.s = c.x]

inx(c, mode, extra_cycle) ==
  update_zero_and_negative_flag([c EXCEPT !.x = wrapping_add8(c.x, 1)],
                                wrapping_add8(c.x, 1))
iny(c, mode, extra_cycle) ==
  update_zero_and_negative_flag([c EXCEPT !.y = wrapping_add8(c.y, 1)],
                                wrapping_add8(c.y, 1))
dex(c, mode, extra_cycle) ==
  update_zero_and_negative_flag([c EXCEPT !.x = wrapping_sub8(c.x, 1)],
                                wrapping_sub8(c.x, 1))
dey(c, mode, extra_cycle) ==
  update_zero_and_negative_flag([c EXCEPT !.y = wrapping_sub8(c.y, 1)],
                                wrapping_sub8(c.y, 1))

\* A branch: the resolver fetches the offset and charges the entry's page
\* penalty; a taken branch adds one cycle and moves PC to the target.
Branch(c, mode, extra_cycle, condition) ==
  LET r == get_operand_address(c, mode, extra_cycle)
  IN  IF r.cpu.panicked THEN r.cpu
      ELSE IF condition THEN [AddCycles(r.cpu, 1) EXCEPT !.pc = r.address]
      ELSE r.cpu

bpl(c, mode, extra_cycle) ==
  Branch(c, mode, extra_cycle, ~is_status_flag_set(c, Negative))
bmi(c, mode, extra_cycle) ==
  Branch(c, mode, extra_cycle, is_status_flag_set(c, Negative))
bvc(c, mode, extra_cycle) ==
  Branch(c, mode, extra_cycle, ~is_status_flag_set(c, Overflow))
bvs(c, mode, extra_cycle) ==
  Branch(c, mode, extra_cycle, is_status_flag_set(c, Overflow))
bcc(c, mode, extra_cycle) ==
  Branch(c, mode, extra_cycle, ~is_status_flag_set(c, Carry))
bcs(c, mode, extra_cycle) ==
  Branch(c, mode, extra_cycle, is_status_flag_set(c, Carry))
bne(c, mode, extra_cycle) ==
  Branch(c, mode, extra_cycle, ~is_status_flag_set(c, Zero))
beq(c, mode, extra_cycle) ==
  Branch(c, mode, extra_cycle, is_status_flag_set(c, Zero))

\* The handlers modelled; tick() is explored on programs that execute
\* only these.
ModelledOps ==
  {"kil", "nop", "jmp", "jsr", "rts", "brk", "rti", "php", "plp", "pha",
   "pla", "clc", "sec", "cli", "sei", "clv", "cld", "sed", "lda", "ldx",
   "ldy", "sta", "stx", "sty", "tax", "tay", "txa", "tya", "tsx", "txs",
   "inx", "iny", "dex", "dey", "bpl", "bmi", "bvc", "bvs", "bcc", "bcs",
   "bne", "beq"}

Dispatch(name, c, mode, extra_cycle) ==
  CASE name = "kil" -> kil(c, mode, extra_cycle)
    [] name = "nop" -> nop(c, mode, extra_cycle)
    [] name = "jmp" -> jmp(c, mode, extra_cycle)
    [] name = "jsr" -> jsr(c, mode, extra_cycle)
    [] name = "rts" -> rts(c, mode, extra_cycle)
    [] name = "brk" -> brk(c, mode, extra_cycle)
    [] name = "rti" -> rti(c, mode, extra_cycle)
    [] name = "php" -> php(c, mode, extra_cycle)
    [] name = "plp" -> plp(c, mode, extra_cycle)
    [] name = "pha" -> pha(c, mode, extra_cycle)
    [] name = "pla" -> pla(c, mode, extra_cycle)
    [] name = "clc" -> clc(c, mode, extra_cycle)
    [] name = "sec" -> sec(c, mode, extra_cycle)
    [] name = "cli" -> cli(c, mode, extra_cycle)
    [] name = "sei" -> sei(c, mode, extra_cycle)
    [] name = "clv" -> clv(c, mode, extra_cycle)
    [] name = "cld" -> cld(c, mode, extra_cycle)
    [] name = "sed" -> sed(c, mode, extra_cycle)
    [] name = "lda" -> lda(c, mode, extra_cycle)
    [] name = "ldx" -> ldx(c, mode, extra_cycle)
    [] name = "ldy" -> ldy(c, mode, extra_cycle)
    [] name = "sta" -> sta(c, mode, extra_cycle)
    [] name = "stx" -> stx(c, mode, extra_cycle)
    [] name = "sty" -> sty(c, mode, extra_cycle)
    [] name = "tax" -> tax(c, mode, extra_cycle)
    [] name = "tay" -> tay(c, mode, extra_cycle)
    [] name = "txa" -> txa(c, mode, extra_cycle)
    [] name = "tya" -> tya(c, mode, extra_cycle)
    [] name = "tsx" -> tsx(c, mode, extra_cycle)
    [] name = "txs" -> txs(c, mode, extra_cycle)
    [] name = "inx" -> inx(c, mode, extra_cycle)
    [] name = "iny" -> iny(c, mode, extra_cycle)
    [] name = "dex" -> dex(c, mode, extra_cycle)
    [] name = "dey" -> dey(c, mode, extra_cycle)
    [] name = "bpl" -> bpl(c, mode, extra_cycle)
    [] name = "bmi" -> bmi(c, mode, extra_cycle)
    [] name = "bvc" -> bvc(c, mode, extra_cycle)
    [] name = "bvs" -> bvs(c, mode, extra_cycle)
    [] name = "bcc" -> bcc(c, mode, extra_cycle)
    [] name = "bcs" -> bcs(c, mode, extra_cycle)
    [] name = "bne" -> bne(c, mode, extra_cycle)
    [] name = "beq" -> beq(c, mode, extra_cycle)

---------------------------------------------------------------------------
(* tick(): fetch the opcode, add the entry's base cycles, run the handler.  *)
(* It returns (), written "unit".                                           *)

\* tick() up to the call of the handler: the opcode fetch, the selection
\* of the arm and `self.cycles += $cycles`.
decode(c) ==
  LET f == next_u8(c)
      e == OpEntry(f.value)
  IN  [cpu |-> IF f.cpu.panicked THEN f.cpu ELSE AddCycles(f.cpu, e.cycles),
       opcode |-> f.value, arms |-> MatchingArms(f.value), entry |-> e]

tick(c) ==
  LET d == decode(c)
  IN  IF d.cpu.panicked THEN d.cpu
      ELSE Dispatch(d.entry.name, d.cpu, mode_to_type(d.entry.mode),
                    d.entry.extra)

---------------------------------------------------------------------------
(* Bus contents handed to new(): program bytes and vectors.                 *)

\* bytes[1], bytes[2], ... stored from address base on.
Image(base, bytes) ==
  [addr \in {base + i - 1 : i \in {j \in 1..Len(bytes) : bytes[j] # 0}}
     |-> bytes[addr - base + 1]]

Merge(f, g) ==
  [addr \in DOMAIN f \cup DOMAIN g |->
     IF addr \in DOMAIN g THEN g[addr] ELSE f[addr]]

\* A little-endian vector at addr pointing to target.
Vector(addr, target) == Image(addr, to_le_bytes(target))

\* $0200: KIL, NOP, NOP, KIL
ProgKil == Merge(Image(512, <<2, 234, 234, 2>>), Vector(ResetVector, 512))

\* $0200: 200 x NOP
ProgNops ==
  Merge(Image(512, [i \in 1..200 |-> 234]), Vector(ResetVector, 512))

\* $0200: JSR $0205   $0205: RTS
ProgJsrRts ==
  Merge(Merge(Image(512, <<32, 5, 2>>), Image(517, <<96>>)),
        Vector(ResetVector, 512))

\* $02FE: JSR $0410 (the instruction spans two pages), $0301: KIL  $0410: RTS
ProgJsrPage ==
  Merge(Merge(Image(766, <<32, 16, 4, 2>>), Image(1040, <<96>>)),
        Vector(ResetVector, 766))

\* $0300: PHA, JSR $0310, KIL   $0310: JSR $0320, RTS   $0320: RTS
ProgNested ==
  Merge(Merge(Image(768, <<72, 32, 16, 3, 2>>),
              Merge(Image(784, <<32, 32, 3, 96>>), Image(800, <<96>>))),
        Vector(ResetVector, 768))

\* $0300: JSR $0300
ProgJsrLoop == Merge(Image(768, <<32, 0, 3>>), Vector(ResetVector, 768))

\* $0400: LDX #$00, TXS, JSR $0410, KIL   $0410: RTS
ProgStackLow ==
  Merge(Merge(Image(1024, <<162, 0, 154, 32, 16, 4, 2>>), Image(1040, <<96>>)),
        Vector(ResetVector, 1024))

\* $0400: LDX #$01, TXS, JSR $0410, KIL   $0410: RTS
ProgStackOne ==
  Merge(Merge(Image(1024, <<162, 1, 154, 32, 16, 4, 2>>), Image(1040, <<96>>)),
        Vector(ResetVector, 1024))

\* $0600: LDA #$00, PHA, PLP, SEC, SED, PHP, LDA #$FF, PHA, PLP, PLP, CLC,
\*        CLD, CLV, CLI, SEI, LDA #$80, PHA, PLA, TAX, INX, DEX, TSX, KIL
ProgFlags ==
  Merge(Image(1536, <<169, 0, 72, 40, 56, 248, 8, 169, 255, 72, 40, 40, 24,
                      216, 184, 88, 120, 169, 128, 72, 104, 170, 232, 202,
                      186, 2>>),
        Vector(ResetVector, 1536))

\* $0200: BRK, (padding), KIL   IRQ/BRK vector -> $0300: RTI
ProgBrk ==
  Merge(Merge(Image(512, <<0, 234, 2>>), Image(768, <<64>>)),
        Merge(Vector(ResetVector, 512), Vector(IrqVector, 768)))

\* $0200: LDA #$5A, STA $10, LDY #$07, STY $0180, TAY, TYA, TXA, JMP $0200
ProgStore ==
  Merge(Image(512, <<169, 90, 133, 16, 160, 7, 140, 128, 1, 168, 152, 138,
                     76, 0, 2>>),
        Vector(ResetVector, 512))

\* $FFFE: NOP, NOP  (the fetch at $FFFF moves PC past the address space)
ProgTop == Merge(Image(65534, <<234, 234>>), Vector(ResetVector, 65534))

\* No byte set: every vector reads $0000, every opcode BRK.
ProgEmpty == Image(0, <<>>)

\* $0400: JMP ($02FF)   $02FF: $34   $0200: $12   $0300: $56
\* $1234: KIL   $5634: KIL
ProgJmpInd ==
  Merge(Merge(Image(1024, <<108, 255, 2>>),
              Merge(Image(767, <<52, 86>>), Image(512, <<18>>))),
        Merge(Merge(Image(4660, <<2>>), Image(22068, <<2>>)),
              Vector(ResetVector, 1024)))

\* $0400: JMP ($0310)   $0310: $34 $12   $1234: KIL
ProgJmpIndPlain ==
  Merge(Merge(Image(1024, <<108, 16, 3>>), Image(784, <<52, 18>>)),
        Merge(Image(4660, <<2>>), Vector(ResetVector, 1024)))

\* $0200: LDX #$01, LDA $02FF,X, LDY #$01, LDA $0310,Y, LDA $03FF,Y, KIL
ProgAbsIndexed ==
  Merge(Image(512, <<162, 1, 189, 255, 2, 160, 1, 185, 16, 3, 185, 255, 3,
                     2>>),
        Vector(ResetVector, 512))

\* $02FD: BPL +2   $0301: BMI +2, BNE +2   $0307: SEC, BCS +2
\* $030C: CLV, BVC -3 (back to CLV)
ProgBranch ==
  Merge(Image(765, <<16, 2, 234, 234, 48, 2, 208, 2, 234, 234, 56, 176, 2,
                     234, 234, 184, 80, 253>>),
        Vector(ResetVector, 765))

\* $0300: BCC -2 (a branch to itself)
ProgBranchSelf == Merge(Image(768, <<144, 254>>), Vector(ResetVector, 768))

\* $0300: BEQ -4 (not taken), BNE -6 (taken, back into page $02)
\* $02FE: KIL
ProgBranchBack ==
  Merge(Merge(Image(768, <<240, 252, 208, 250>>), Image(766, <<2>>)),
        Vector(ResetVector, 768))

\* $0200: LDX #$03, LDY #$05, LDA $10,X, LDX $10,Y, LDA ($10,X), LDA ($10),Y,
\*        STA $0310,X, NOP $10, NOP, KIL      $0010..: $11 $22 ... $88
ProgModes ==
  Merge(Merge(Image(512, <<162, 3, 160, 5, 181, 16, 182, 16, 161, 16, 177, 16,
                           157, 16, 3, 4, 16, 234, 2>>),
              Image(16, <<17, 34, 51, 68, 85, 102, 119, 136>>)),
        Vector(ResetVector, 512))

\* $0200: LDX #$01, LDA $FFFF,X, KIL    $0000: $77
ProgIndexTop ==
  Merge(Merge(Image(512, <<162, 1, 189, 255, 255, 2>>), Image(0, <<119>>)),
        Vector(ResetVector, 512))

Programs ==
  {ProgKil, ProgNops, ProgJsrRts, ProgJsrPage, ProgNested, ProgJsrLoop,
   ProgStackLow, ProgStackOne, ProgFlags, ProgBrk, ProgStore, ProgTop,
   ProgEmpty, ProgJmpInd, ProgJmpIndPlain, ProgAbsIndexed, ProgBranch,
   ProgBranchSelf, ProgBranchBack, ProgModes, ProgIndexTop}

Builds == {"debug", "release"}

---------------------------------------------------------------------------
(* Actions. *)

Commit(r) ==
  /\ bus' = r.bus
  /\ a' = r.a
  /\ x' = r.x
  /\ y' = r.y
  /\ pc' = r.pc
  /\ s' = r.s
  /\ p' = r.p
  /\ cycles' = r.cycles
  /\ panicked' = r.panicked
  /\ why' = r.why
  /\ sumCycles' = r.total

Remember(e) ==
  hist' = IF Len(hist) < HistLen THEN Append(hist, e)
          ELSE Append(Tail(hist), e)

Call(op, arg, ret, r) ==
  [op |-> op, arg |-> arg, ret |-> ret, before |-> Cpu, after |-> r.s,
   touched |-> r.touched]

\* No call in progress.
Idle == [fn |-> "none", arg |-> "none", done |-> FALSE]

\* The state new(b) constructs, in a build of either kind.
Start(b, bd, sp) ==
  LET c == new(b)
  IN  /\ bus = c.bus
      /\ a = c.a
      /\ x = c.x
      /\ y = c.y
      /\ pc = c.pc
      /\ s = sp
      /\ p = c.p
      /\ cycles = c.cycles
      /\ panicked = c.panicked
      /\ why = c.why
      /\ sumCycles = c.total
      /\ build = bd
      /\ halted = FALSE
      /\ ticks = 0
      /\ calls = 0
      /\ hist = <<[op |-> "new", arg |-> b, ret |-> "unit", before |-> c,
                   after |-> sp, touched |-> {}]>>
      /\ frame = Idle

Init == \E b \in Programs, bd \in Builds : Start(b, bd, new(b).s)

\* One call of tick() on a live CPU, while fewer than n have been made.
TickWithin(n) ==
  /\ ticks < n
  /\ ~panicked
  /\ OpEntry(peek_u8(Cpu)).name \in ModelledOps
  /\ LET r == tick(Cpu)
     IN  /\ Commit(r)
         /\ Remember(Call("tick", peek_u8(Cpu), "unit", r))
  /\ halted' = (halted \/ OpEntry(peek_u8(Cpu)).name = "kil")
  /\ ticks' = ticks + 1
  /\ UNCHANGED <<build, calls, frame>>

Tick == TickWithin(MaxTicks)

Next == Tick

Spec == Init /\ [][Next]_vars

---------------------------------------------------------------------------
(* The flag helper called on a live CPU, between ticks. *)

SetStatusFlag ==
  /\ calls < MaxFlagCalls
  /\ ~panicked
  /\ \E status_flag \in StatusFlag, value \in BOOLEAN :
       LET r == set_status_flag(Cpu, status_flag, value)
       IN  /\ Commit(r)
           /\ Remember(Call("set_status_flag", <<status_flag, value>>,
                            "unit", r))
  /\ calls' = calls + 1
  /\ UNCHANGED <<build, halted, ticks, frame>>

TickFlags == TickWithin(MaxFlagTicks)

FlagPrograms == {ProgFlags, ProgBrk, ProgKil}

InitFlags == \E b \in FlagPrograms, bd \in Builds : Start(b, bd, new(b).s)

NextFlags == TickFlags \/ SetStatusFlag

SpecFlags == InitFlags /\ [][NextFlags]_vars

---------------------------------------------------------------------------
(* The stack primitives called directly, from every stack pointer.          *)

StackPointers == {0, 1, 128, 254, 255}
Values8 == {0, 171}
Values16 == {4660, 255}

\* An empty bus, and one with data at $01FE, $01FF and $0200.
StackBuses == {ProgEmpty, Image(510, <<17, 34, 51>>)}

InitStack ==
  \E b \in StackBuses, bd \in Builds, sp \in StackPointers : Start(b, bd, sp)

PushStackU8 ==
  /\ calls < MaxOps
  /\ ~panicked
  /\ \E value \in Values8 :
       LET r == push_stack_u8(Cpu, value)
       IN  Commit(r) /\ Remember(Call("push_stack_u8", value, "unit", r))
  /\ calls' = calls + 1
  /\ UNCHANGED <<build, halted, ticks, frame>>

PullStackU8 ==
  /\ calls < MaxOps
  /\ ~panicked
  /\ LET f == pull_stack_u8(Cpu)
     IN  Commit(f.cpu) /\ Remember(Call("pull_stack_u8", "none", f.value, f.cpu))
  /\ calls' = calls + 1
  /\ UNCHANGED <<build, halted, ticks, frame>>

PushStackU16 ==
  /\ calls < MaxOps
  /\ ~panicked
  /\ \E value \in Values16 :
       LET r == push_stack_u16(Cpu, value)
       IN  Commit(r) /\ Remember(Call("push_stack_u16", value, "unit", r))
  /\ calls' = calls + 1
  /\ UNCHANGED <<build, halted, ticks, frame>>

PullStackU16 ==
  /\ calls < MaxOps
  /\ ~panicked
  /\ LET f == pull_stack_u16(Cpu)
     IN  Commit(f.cpu) /\ Remember(Call("pull_stack_u16", "none", f.value, f.cpu))
  /\ calls' = calls + 1
  /\ UNCHANGED <<build, halted, ticks, frame>>

NextStack == PushStackU8 \/ PullStackU8 \/ PushStackU16 \/ PullStackU16

SpecStack == InitStack /\ [][NextStack]_vars

---------------------------------------------------------------------------
(* tick() in two steps, on every opcode byte: the decode of the byte, then  *)
(* the handler the arm names.                                               *)

\* $0200: the opcode byte, then the operand bytes $10 $03.
DecodeImage(byte) ==
  Merge(Image(512, <<byte, 16, 3>>), Vector(ResetVector, 512))

InitDecode ==
  \E byte \in Byte, bd \in Builds :
    Start(DecodeImage(byte), bd, new(DecodeImage(byte)).s)

DecodeOpcode ==
  /\ frame.fn = "none"
  /\ ticks < MaxDecodes
  /\ ~panicked
  /\ LET d == decode(Cpu)
     IN  /\ Commit(d.cpu)
         /\ frame' = [fn |-> "tick",
                      arg |-> [before |-> Cpu, opcode |-> d.opcode,
                               arms |-> d.arms, entry |-> d.entry],
                      done |-> FALSE]
  /\ UNCHANGED <<build, halted, ticks, calls, hist>>

RunHandler ==
  /\ frame.fn = "tick"
  /\ ~panicked
  /\ frame.arg.entry.name \in ModelledOps
  /\ LET e == frame.arg.entry
         r == Dispatch(e.name, Cpu, mode_to_type(e.mode), e.extra)
     IN  /\ Commit(r)
         /\ Remember([op |-> "tick", arg |-> frame.arg.opcode, ret |-> "unit",
                      before |-> frame.arg.before, after |-> r.s,
                      touched |-> r.touched])
         /\ halted' = (halted \/ e.name = "kil")
  /\ ticks' = ticks + 1
  /\ frame' = Idle
  /\ UNCHANGED <<build, calls>>

NextDecode == DecodeOpcode \/ RunHandler

SpecDecode == InitDecode /\ [][NextDecode]_vars

---------------------------------------------------------------------------
(* The addressing resolver called directly: every mode, on operand bytes,   *)
(* index registers, program counters and zero-page contents drawn from      *)
(* small sets.                                                              *)

Modes ==
  {"Absolute", "AbsoluteIndexedX", "AbsoluteIndexedY", "Immediate", "Implied",
   "Indirect", "IndirectX", "IndirectY", "Relative", "ZeroPage", "ZeroPageX",
   "ZeroPageY", "None"}

\* First and second operand byte at PC.
OperandBytes == {2, 32, 128, 254, 255}
OperandHighBytes == {2, 255}
\* <<X, Y>>
IndexPairs == {<<0, 0>>, <<1, 255>>, <<255, 1>>, <<4, 4>>}
\* $0200, $02FC (a forward branch leaves the page), $FFFF
ResolverPcs == {512, 764, 65535}

\* Two fillings of $0000..$00FF and $0200..$03FF, no cell zero.
ZeroPageA == Image(0, [i \in 1..256 |-> ((5 * i + 17) % 255) + 1])
ZeroPageB == Image(0, [i \in 1..256 |-> ((11 * i + 3) % 255) + 1])
ResolverBuses ==
  {Merge(ZeroPageA, Image(512, [i \in 1..512 |-> ((3 * i) % 255) + 1])),
   Merge(ZeroPageB, Image(512, [i \in 1..512 |-> ((7 * i) % 255) + 1]))}

InitResolver ==
  \E b \in ResolverBuses, bd \in Builds, op \in OperandBytes,
     high \in OperandHighBytes, xy \in IndexPairs, at \in ResolverPcs :
    LET c == [new(set_u8(set_u8(b, at, op), wrapping_add16(at, 1), high))
                EXCEPT !.x = xy[1], !.y = xy[2], !.pc = at]
    IN  /\ bus = c.bus
        /\ a = c.a
        /\ x = c.x
        /\ y = c.y
        /\ pc = c.pc
        /\ s = c.s
        /\ p = c.p
        /\ cycles = c.cycles
        /\ panicked = c.panicked
        /\ why = c.why
        /\ sumCycles = c.total
        /\ build = bd
        /\ halted = FALSE
        /\ ticks = 0
        /\ calls = 0
        /\ hist = <<[op |-> "new", arg |-> c.bus, ret |-> "unit",
                     before |-> c, after |-> c.s, touched |-> {}]>>
        /\ frame = Idle

GetOperandAddress ==
  /\ calls < MaxResolves
  /\ ~panicked
  /\ \E mode \in Modes, page_boundary_cycle \in {0, 1} :
       LET r == get_operand_address(Cpu, mode, page_boundary_cycle)
       IN  /\ Commit(r.cpu)
           /\ Remember(Call("get_operand_address",
                            <<mode, page_boundary_cycle>>, r.address, r.cpu))
  /\ calls' = calls + 1
  /\ UNCHANGED <<build, halted, ticks, frame>>

NextResolver == GetOperandAddress

SpecResolver == InitResolver /\ [][NextResolver]_vars

---------------------------------------------------------------------------
(* run_until(predicate): `while !predicate(self) { self.tick(); }`, one     *)
(* evaluation of the loop condition per step; run() likewise.               *)

\* Closures handed to run_until, by name.
Predicates == {"always", "never", "a_is_5a", "cycles_ge_4", "pc_is_0203"}

Predicate(k, c) ==
  CASE k = "always" -> TRUE
    [] k = "never" -> FALSE
    [] k = "a_is_5a" -> c.a = 90
    [] k = "cycles_ge_4" -> c.cycles >= 4
    [] k = "pc_is_0203" -> c.pc = 515

InitRun == Init

\* The call: the frame remembers the closure, the ticks made before the
\* call and whether the closure held at the call.
RunUntilCall ==
  /\ frame.fn = "none"
  /\ calls < MaxRuns
  /\ ~panicked
  /\ \E k \in Predicates :
       frame' = [fn |-> "run_until",
                 arg |-> [predicate |-> k, since |-> ticks,
                          held |-> Predicate(k, Cpu)],
                 done |-> FALSE]
  /\ calls' = calls + 1
  /\ UNCHANGED <<bus, a, x, y, pc, s, p, cycles, panicked, why, build, halted,
                 ticks, sumCycles, hist>>

\* The condition is true: the body runs once.
RunUntilLoop ==
  /\ frame.fn = "run_until"
  /\ ~Predicate(frame.arg.predicate, Cpu)
  /\ TickWithin(MaxTicks)

\* The condition is false: run_until returns.
RunUntilReturn ==
  /\ frame.fn = "run_until"
  /\ ~panicked
  /\ Predicate(frame.arg.predicate, Cpu)
  /\ frame' = Idle
  /\ Remember(Call("run_until", frame.arg.predicate, "unit", Cpu))
  /\ UNCHANGED <<bus, a, x, y, pc, s, p, cycles, panicked, why, build, halted,
                 ticks, calls, sumCycles>>

\* run(): `while self.peek_u8() != OpCode::KIL as u8 { self.tick() }`, one
\* evaluation of the loop condition per step.
KIL == 2

\* The loop condition of run() testing for BRK.
run_continues_until_brk(c) == peek_u8(c) # 0

run_continues(c) == peek_u8(c) # KIL

RunCall ==
  /\ frame.fn = "none"
  /\ calls < MaxRuns
  /\ ~panicked
  /\ frame' = [fn |-> "run",
               arg |-> [predicate |-> "kil_at_pc", since |-> ticks,
                        held |-> ~run_continues(Cpu)],
               done |-> FALSE]
  /\ calls' = calls + 1
  /\ UNCHANGED <<bus, a, x, y, pc, s, p, cycles, panicked, why, build, halted,
                 ticks, sumCycles, hist>>

\* The condition is true: the body runs once.
RunLoop ==
  /\ frame.fn = "run"
  /\ run_continues(Cpu)
  /\ TickWithin(MaxTicks)

\* The condition is false: run returns.
RunReturn ==
  /\ frame.fn = "run"
  /\ ~panicked
  /\ ~run_continues(Cpu)
  /\ frame' = Idle
  /\ Remember(Call("run", "none", "unit", Cpu))
  /\ UNCHANGED <<bus, a, x, y, pc, s, p, cycles, panicked, why, build, halted,
                 ticks, calls, sumCycles>>

NextRun ==
  \/ RunUntilCall \/ RunUntilLoop \/ RunUntilReturn
  \/ RunCall \/ RunLoop \/ RunReturn

SpecRun == InitRun /\ [][NextRun]_vars

---------------------------------------------------------------------------
(* The flag helpers called directly, on status bytes, accumulators and      *)
(* arguments drawn from small sets.                                         *)

\* The state of a CPU whose registers have been given the values of c.
Constructed(c, bd) ==
  /\ bus = c.bus
  /\ a = c.a
  /\ x = c.x
  /\ y = c.y
  /\ pc = c.pc
  /\ s = c.s
  /\ p = c.p
  /\ cycles = c.cycles
  /\ panicked = c.panicked
  /\ why = c.why
  /\ sumCycles = c.total
  /\ build = bd
  /\ halted = FALSE
  /\ ticks = 0
  /\ calls = 0
  /\ hist = <<[op |-> "new", arg |-> c.bus, ret |-> "unit", before |-> c,
               after |-> c.s, touched |-> {}]>>

StartFrom(c, bd) == Constructed(c, bd) /\ frame = Idle

\* %00000000, %00110100 (the value after new), %10110110, %11111111
FlagBytes == {0, 52, 182, 255}

InitZeroNegative ==
  \E bd \in Builds, flags \in FlagBytes :
    StartFrom([new(ProgEmpty) EXCEPT !.p = flags, !.a = 129, !.x = 7,
                                     !.y = 9], bd)

UpdateZeroAndNegativeFlag ==
  /\ calls < MaxFlagUpdates
  /\ ~panicked
  /\ \E value \in Byte :
       LET r == update_zero_and_negative_flag(Cpu, value)
       IN  /\ Commit(r)
           /\ Remember(Call("update_zero_and_negative_flag", value, "unit", r))
  /\ calls' = calls + 1
  /\ UNCHANGED <<build, halted, ticks, frame>>

NextZeroNegative == UpdateZeroAndNegativeFlag

SpecZeroNegative == InitZeroNegative /\ [][NextZeroNegative]_vars

\* Operands of an addition: both signs, the ends of the byte range and of
\* the signed range.
AdcOperands == {0, 1, 80, 127, 128, 255}

\* Every accumulator, with the carry clear and set.
InitAdc ==
  \E bd \in Builds, acc \in Byte, flags \in {52, 53} :
    StartFrom([new(ProgEmpty) EXCEPT !.p = flags, !.a = acc], bd)

\* update_carry_flag on the 9-bit sum A + M + C.
UpdateCarryFlag ==
  /\ calls < MaxAdcCalls
  /\ ~panicked
  /\ \E operand \in AdcOperands :
       LET result == a + operand + get_carry(Cpu)
           r == update_carry_flag(Cpu, result)
       IN  /\ Commit(r)
           /\ Remember(Call("update_carry_flag", result, "unit", r))
  /\ calls' = calls + 1
  /\ UNCHANGED <<build, halted, ticks, frame>>

\* update_overflow_flag on the operand and the low byte of A + M + C, the
\* accumulator still holding A.
UpdateOverflowFlag ==
  /\ calls < MaxAdcCalls
  /\ ~panicked
  /\ \E operand \in AdcOperands :
       LET result == (a + operand + get_carry(Cpu)) % 256
           r == update_overflow_flag(Cpu, operand, result)
       IN  /\ Commit(r)
           /\ Remember(Call("update_overflow_flag", <<operand, result>>,
                            "unit", r))
  /\ calls' = calls + 1
  /\ UNCHANGED <<build, halted, ticks, frame>>

NextAdc == UpdateCarryFlag \/ UpdateOverflowFlag

SpecAdc == InitAdc /\ [][NextAdc]_vars

---------------------------------------------------------------------------
(* The visualizer: the main loop of cpu-visualizer/main.rs.  One step is    *)
(* one turn of the loop (the redraw when the tick count has changed, then   *)
(* the arm of one key), or one turn of the for loop of a digit key.  The    *)
(* frame holds the locals of main.                                          *)

\* `value as i8`
u8_as_i8(v) == IF v >= 128 THEN v - 256 ELSE v

\* `value as u16` of an i32
i32_as_u16(v) == (v + 65536) % 65536

ADDRESSING_MODE_TABLE(operation) == mode_to_type(OpEntry(operation).mode)

\* One turn of the listing loop: the line of the instruction at `at`.  The
\* operand fetches are `pc += 1`, `pc + 1` and `pc += 2`; `failed` is the
\* overflow panic of a debug build.
list_instruction(b, at, labels) ==
  LET instruction_pc == at
      operation == read_u8(b, at)
      pc1 == wrapping_add16(at, 1)
      mode == ADDRESSING_MODE_TABLE(operation)
      line == [at |-> instruction_pc, operation |-> operation, mode |-> mode,
               next |-> pc1, address |-> -1, failed |-> FALSE]
      Fetched(n) == [line EXCEPT !.next = (pc1 + n) % 65536,
                                 !.failed = pc1 + n > 65535 /\ build = "debug"]
  IN  CASE mode \in {"Absolute", "AbsoluteIndexedX", "AbsoluteIndexedY",
                     "Indirect"} -> Fetched(2)
        [] mode \in {"Immediate", "ZeroPage", "ZeroPageX", "ZeroPageY",
                     "IndirectX", "IndirectY"} -> Fetched(1)
        [] mode = "Relative" ->
             LET relative_value == u8_as_i8(read_u8(b, pc1))
                 address == i32_as_u16(instruction_pc + relative_value)
             IN  IF address \in labels
                 THEN [Fetched(1) EXCEPT !.address = address]
                 ELSE [Fetched(2) EXCEPT !.address = address]
        [] mode \in {"Implied", "None"} -> line

\* The lines of n turns of the listing loop, up to a failed one.
RECURSIVE list_instructions(_, _, _, _)
list_instructions(b, at, n, labels) ==
  IF n = 0 THEN <<>>
  ELSE LET line == list_instruction(b, at, labels)
       IN  IF line.failed THEN <<line>>
           ELSE <<line>> \o list_instructions(b, line.next, n - 1, labels)

\* The listing drawn for the CPU c, and executed_instructions afterwards: the
\* first line, and its label, are pushed to the front.
get_instructions_text(c, height, executed_instructions, labels) ==
  LET executed_len == height \div 3
      truncated ==
        IF Len(executed_instructions) > executed_len
        THEN SubSeq(executed_instructions, 1, executed_len)
        ELSE executed_instructions
      next_instructructions_len ==
        height - Len(truncated) + (height % 3)
      lines == list_instructions(c.bus, c.pc, next_instructructions_len,
                                 labels)
      label == IF c.pc \in labels THEN <<[kind |-> "label", at |-> c.pc]>>
               ELSE <<>>
      first == <<[kind |-> "instruction", at |-> c.pc]>>
  IN  [lines |-> lines,
       executed_instructions |->
         IF next_instructructions_len = 0 THEN truncated
         ELSE first \o label \o truncated,
       failed |-> \E i \in 1..Len(lines) : lines[i].failed]

\* char::to_digit(10); -1 stands for None.
to_digit(c) ==
  CASE c = "0" -> 0 [] c = "1" -> 1 [] c = "2" -> 2 [] c = "3" -> 3
    [] c = "4" -> 4 [] c = "5" -> 5 [] c = "6" -> 6 [] c = "7" -> 7
    [] c = "8" -> 8 [] c = "9" -> 9 [] OTHER -> -1

\* Key::Char(c) for these c, and one key that is no character.
Chars == {"q", "n", "0", "1", "2", "3", "4", "5", "6", "7", "8", "9", "x"}
OtherKeys == {"Esc"}

\* cpu.tick() as main.rs uses it: the value is false when the instruction
\* executed is KIL.
cpu_tick(c) ==
  [cpu |-> tick(c), value |-> OpEntry(peek_u8(c)).name # "kil"]

\* `if !cpu.tick() { break; }` and `if !cpu.tick() { return Ok(()); }`:
\* whether the loop is left on the value of a call.  The first is the test of
\* a loop that never looks at the value.
leaves_loop_never(value) == FALSE

leaves_loop(value) == ~value

\* The redraw at the head of a turn: a new listing when the tick count is
\* not the one last drawn, the old one otherwise.
Redraw ==
  IF frame.arg.last_drawn_tick_count # ticks
  THEN get_instructions_text(Cpu, frame.arg.height,
                             frame.arg.executed_instructions,
                             frame.arg.labels)
  ELSE [lines |-> frame.arg.lines,
        executed_instructions |-> frame.arg.executed_instructions,
        failed |-> FALSE]

\* The redraw panics on an overflowing operand fetch (debug build).
RedrawFails(drawn) ==
  /\ panicked' = TRUE
  /\ why' = "listing"
  /\ frame' = [frame EXCEPT !.arg.lines = drawn.lines]
  /\ UNCHANGED <<bus, a, x, y, pc, s, p, cycles, build, halted, ticks, calls,
                 sumCycles, hist>>

\* The locals of main after the redraw, in the arm of `key`, with `left`
\* turns of its for loop to go.
TurnFrame(key, drawn, left, results, exit) ==
  [frame EXCEPT !.arg.lines = drawn.lines,
                !.arg.executed_instructions = drawn.executed_instructions,
                !.arg.last_drawn_tick_count = ticks,
                !.arg.key = key,
                !.arg.left = left,
                !.arg.results = results,
                !.done = exit]

\* The record of a finished arm: the values its tick() calls returned and
\* whether it left the loop.
KeyCall(key, results, exit) ==
  [op |-> "key", arg |-> key,
   ret |-> [made |-> Len(results), results |-> results, exit |-> exit],
   before |-> Cpu, after |-> s, touched |-> {}]

\* At the head of the loop, waiting for an event.
InLoop ==
  /\ frame.fn = "main"
  /\ ~frame.done
  /\ ~panicked
  /\ frame.arg.left = 0
  /\ calls < MaxKeys

\* An arm that makes no call.
NoTick(key, exit) ==
  /\ \E drawn \in {Redraw} :
       IF drawn.failed THEN RedrawFails(drawn)
       ELSE /\ frame' = TurnFrame(key, drawn, 0, <<>>, exit)
            /\ Remember(KeyCall(key, <<>>, exit))
            /\ calls' = calls + 1
            /\ UNCHANGED <<bus, a, x, y, pc, s, p, cycles, panicked, why,
                           build, halted, ticks, sumCycles>>

\* Key::Char('q')
KeyQuit == InLoop /\ NoTick("q", TRUE)

\* Key::Char('n') | Key::Char('1')
KeyStep ==
  /\ InLoop
  /\ \E key \in {"n", "1"}, drawn \in {Redraw}, t \in {cpu_tick(Cpu)} :
       IF drawn.failed THEN RedrawFails(drawn)
       ELSE /\ Commit(t.cpu)
            /\ ticks' = ticks + 1
            /\ calls' = calls + 1
            /\ halted' = (halted \/ (~t.cpu.panicked /\ ~t.value))
            /\ IF t.cpu.panicked
               THEN /\ frame' = TurnFrame(key, drawn, 0, <<>>, FALSE)
                    /\ UNCHANGED hist
               ELSE /\ frame' = TurnFrame(key, drawn, 0, <<t.value>>,
                                          leaves_loop(t.value))
                    /\ Remember(KeyCall(key, <<t.value>>,
                                        leaves_loop(t.value)))
            /\ UNCHANGED build

\* Key::Char(c) with a digit other than 0: the for loop is entered.
KeyDigit ==
  /\ InLoop
  /\ \E c \in Chars \ {"q", "n", "1"}, drawn \in {Redraw} :
       /\ to_digit(c) \notin {-1, 0}
       /\ IF drawn.failed THEN RedrawFails(drawn)
          ELSE /\ frame' = TurnFrame(c, drawn, (to_digit(c) + 1) ^ 2, <<>>,
                                     FALSE)
               /\ calls' = calls + 1
               /\ UNCHANGED <<bus, a, x, y, pc, s, p, cycles, panicked, why,
                              build, halted, ticks, sumCycles, hist>>

\* One turn of `for _ in 0..((n + 1).pow(2)) { if !cpu.tick() { return
\* Ok(()); } }`.
ForTick ==
  /\ frame.fn = "main"
  /\ ~frame.done
  /\ ~panicked
  /\ frame.arg.left > 0
  /\ \E t \in {cpu_tick(Cpu)} :
       LET results == Append(frame.arg.results, t.value)
           over == leaves_loop(t.value) \/ frame.arg.left = 1
       IN  /\ Commit(t.cpu)
           /\ ticks' = ticks + 1
           /\ halted' = (halted \/ (~t.cpu.panicked /\ ~t.value))
           /\ IF t.cpu.panicked THEN UNCHANGED <<frame, hist>>
              ELSE /\ frame' = [frame EXCEPT
                                  !.arg.left = IF over THEN 0 ELSE @ - 1,
                                  !.arg.results = results,
                                  !.done = leaves_loop(t.value)]
                   /\ IF over
                      THEN Remember(KeyCall(frame.arg.key, results,
                                            leaves_loop(t.value)))
                      ELSE UNCHANGED hist
           /\ UNCHANGED <<build, calls>>

\* Key::Char(c) with '0' or no digit, and `_ => {}`.
KeyOther ==
  /\ InLoop
  /\ \E key \in (Chars \ {"q", "n", "1"}) \cup OtherKeys :
       /\ key \in OtherKeys \/ to_digit(key) \in {-1, 0}
       /\ NoTick(key, FALSE)

\* <<height of the instruction panel, labelled addresses>>: no label, a
\* label at the target of the first branch of ProgBranch ($0301), a label
\* two below it ($02FF).
Layouts == {<<3, {}>>, <<7, {769}>>, <<7, {767}>>}

VisualizerPrograms ==
  {ProgKil, ProgJsrPage, ProgBranch, ProgBranchBack, ProgStore}

InitVisualizer ==
  \E b \in VisualizerPrograms, bd \in Builds, layout \in Layouts :
    /\ Constructed(new(b), bd)
    /\ frame = [fn |-> "main",
                arg |-> [height |-> layout[1], labels |-> layout[2],
                         executed_instructions |-> <<>>,
                         last_drawn_tick_count |-> -1, lines |-> <<>>,
                         key |-> "none", left |-> 0, results |-> <<>>],
                done |-> FALSE]

NextVisualizer == KeyQuit \/ KeyStep \/ KeyDigit \/ ForTick \/ KeyOther

SpecVisualizer == InitVisualizer /\ [][NextVisualizer]_vars

---------------------------------------------------------------------------
(* Properties. *)

\* The most recent call and the one before it.
Last == hist[Len(hist)]
Prev == hist[Len(hist) - 1]

Bit5Set == BitAnd(p, Push) = Push

StackCalls ==
  {"push_stack_u8", "pull_stack_u8", "push_stack_u16", "pull_stack_u16"}

\* C1: tick() returns a boolean that is false iff a KIL opcode has been
\* executed, and true for every other instruction of a running CPU.
C1_TickReturnsFalseIffHalted ==
  Last.op = "tick" =>
    /\ (Last.ret = "false") <=> halted
    /\ ~halted => Last.ret = "true"

\* C2: once a KIL opcode has been executed, no later tick() changes A, X, Y,
\* PC, S, P, cycles or any bus byte.
C2_HaltedIsAbsorbing ==
  [][halted =>
       /\ a' = a /\ x' = x /\ y' = y /\ pc' = pc /\ s' = s /\ p' = p
       /\ cycles' = cycles /\ bus' = bus]_vars

\* C3: right after new(bus), PC is the little-endian word at $FFFC/$FFFD,
\* S = $FF, P = %00110100, A = X = Y = 0, cycles = 0 and the bus is the one
\* handed in.
C3_NewState ==
  (ticks = 0 /\ calls = 0) =>
    LET b == Last.arg
    IN  /\ Last.op = "new"
        /\ pc = read_u8(b, 65532) + 256 * read_u8(b, 65533)
        /\ s = 255
        /\ p = 52
        /\ a = 0 /\ x = 0 /\ y = 0
        /\ cycles = 0
        /\ bus = b
        /\ ~panicked

C3_Witness == ticks = 0 /\ calls = 0 /\ bus = ProgJsrPage /\ pc = 766

\* C4, as stated: bit 5 of P is set in every reachable state, whatever
\* tick() and set_status_flag calls were made.
C4_Bit5AlwaysSet == Bit5Set

\* C4, amended: bit 5 of P is set after new() and stays set across every
\* tick() and every set_status_flag call except set_status_flag(Push, false).
C4_Bit5SetUnlessPushCleared ==
  /\ Bit5Set
  /\ [][(Bit5Set /\ ~(Last'.op = "set_status_flag" /\ Last'.arg = <<Push, FALSE>>))
          => Bit5Set']_vars

\* A PLP has pulled $00 into P and another flag has then been cleared by the
\* helper.
C4_Witness ==
  /\ Len(hist) >= 2
  /\ Prev.op = "tick" /\ Prev.arg = 40 /\ read_u8(Prev.before.bus, 256 + Prev.after) = 0
  /\ Last.op = "set_status_flag" /\ Last.arg = <<InterruptDisable, FALSE>>
  /\ p = 32

\* C5: push_stack_u8(v) directly followed by pull_stack_u8() returns v and
\* restores S, for every S.
C5_PushPullU8RoundTrip ==
  (Len(hist) >= 2 /\ Prev.op = "push_stack_u8" /\ Last.op = "pull_stack_u8") =>
    /\ Last.ret = Prev.arg
    /\ s = Prev.before.s

C5_Witness ==
  /\ Len(hist) >= 2
  /\ Prev.op = "push_stack_u8" /\ Last.op = "pull_stack_u8"
  /\ Prev.before.s = 0 /\ Prev.arg = 171 /\ s = 0

\* C6: push_stack_u16(v) directly followed by pull_stack_u16() returns v, and
\* of the two cells the push writes the lower one holds the low byte of v.
C6_PushPullU16RoundTrip ==
  /\ (Len(hist) >= 2 /\ Prev.op = "push_stack_u16" /\ Last.op = "pull_stack_u16")
       => Last.ret = Prev.arg
  /\ Last.op = "push_stack_u16" =>
       \E lo, hi \in Last.touched :
         /\ lo < hi
         /\ Last.touched = {lo, hi}
         /\ read_u8(bus, lo) = Last.arg % 256
         /\ read_u8(bus, hi) = Last.arg \div 256

C6_Witness ==
  /\ Len(hist) >= 2
  /\ Prev.op = "push_stack_u16" /\ Last.op = "pull_stack_u16"
  /\ Prev.before.s = 255 /\ Prev.arg = 4660 /\ Last.ret = 4660

\* C7: S moves by 1 (u8) or 2 (u16) modulo 256, down on a push and up on a
\* pull, from every S, and no push or pull fails.
C7_StackPointerWraps ==
  Last.op \in StackCalls =>
    /\ ~panicked
    /\ Last.op = "push_stack_u8" =>
         s = IF Last.before.s = 0 THEN 255 ELSE Last.before.s - 1
    /\ Last.op = "pull_stack_u8" =>
         s = IF Last.before.s = 255 THEN 0 ELSE Last.before.s + 1
    /\ Last.op = "push_stack_u16" =>
         s = IF Last.before.s < 2 THEN Last.before.s + 254 ELSE Last.before.s - 2
    /\ Last.op = "pull_stack_u16" =>
         s = IF Last.before.s > 253 THEN Last.before.s - 254 ELSE Last.before.s + 2

C7_Witness ==
  /\ Last.op = "push_stack_u8" /\ Last.before.s = 0 /\ s = 255
  /\ build = "debug"

\* C8: every bus address a stack primitive reads or writes lies in
\* $0100..$01FF, for every S.
C8_StackAccessInStackPage ==
  Last.op \in StackCalls => \A addr \in Last.touched : addr \in 256..511

\* C9: a JSR abs at p followed by the RTS at its target leaves PC = p + 3 and
\* S as it was before the JSR.
C9_JsrRtsRoundTrip ==
  (/\ Len(hist) >= 2
   /\ Prev.op = "tick" /\ Prev.arg = 32
   /\ Last.op = "tick" /\ Last.arg = 96
   /\ Last.before.pc = read_u16(Prev.before.bus, Prev.before.pc + 1)) =>
    /\ ~panicked
    /\ pc = Prev.before.pc + 3
    /\ s = Prev.before.s

\* The round trip from S = $00, where the push wraps the stack pointer.
C9_Witness ==
  /\ Len(hist) >= 2
  /\ Prev.op = "tick" /\ Prev.arg = 32 /\ Prev.before.s = 0
  /\ Last.op = "tick" /\ Last.arg = 96
  /\ pc = 1030 /\ s = 0

\* C10: cycles equals the sum of the base cycles and penalties of the
\* instructions executed; it never wraps and never makes tick() fail.
C10_CyclesIsRunningSum == why # "cycles" /\ cycles = sumCycles

\* C11: every byte $00..$FF that tick() fetches matches exactly one arm of
\* the table, and that arm gives the mnemonic, the addressing mode and the
\* base cycles that tick() uses; no byte is left undecoded.
C11_DecodeExactlyOneArm ==
  frame.fn = "tick" =>
    /\ Cardinality(frame.arg.arms) = 1
    /\ \A i \in frame.arg.arms :
         /\ OpBytes[i] = frame.arg.opcode
         /\ frame.arg.entry.name = OpTable[i][1]
         /\ frame.arg.entry.mode = OpTable[i][2]
         /\ frame.arg.entry.cycles = OpTable[i][3]
         /\ ~panicked => sumCycles = frame.arg.before.total + OpTable[i][3]
    /\ frame.arg.opcode = read_u8(frame.arg.before.bus, frame.arg.before.pc)

\* The last byte, $FF, has been fetched and decoded as ISC abs,X, 7 cycles.
C11_Witness ==
  /\ frame.fn = "tick"
  /\ frame.arg.opcode = 255
  /\ frame.arg.entry.name = "isc" /\ frame.arg.entry.mode = "abx"
  /\ cycles = 7

\* C12: after JMP (ind) with operand base, PC is the byte at base for its
\* low half and, for its high half, the byte at base + 1, or the byte at
\* $xx00 of the same page when base is $xxFF.
C12_IndirectJmpPageBug ==
  (Last.op = "tick" /\ Last.arg = 108 /\ ~panicked) =>
    LET b == Last.before.bus
        base == read_u16(b, wrapping_add16(Last.before.pc, 1))
        high == IF base % 256 = 255 THEN base - 255
                ELSE wrapping_add16(base, 1)
    IN  pc = read_u8(b, base) + 256 * read_u8(b, high)

\* The operand byte a resolver call fetched, and the zero-page pointer at a
\* location: the bytes at ptr and at (ptr + 1) mod 256, low byte first.
Operand == read_u8(Last.before.bus, Last.before.pc)
ZeroPagePointer(b, ptr) ==
  read_u8(b, ptr) + 256 * read_u8(b, IF ptr = 255 THEN 0 ELSE ptr + 1)

\* C13: for ZeroPageX and ZeroPageY the resolver returns (op + X) mod 256,
\* respectively (op + Y) mod 256, an address in $0000..$00FF, and the index
\* addition never fails.
C13_ZeroPageIndexedWraps ==
  (Last.op = "get_operand_address"
     /\ Last.arg[1] \in {"ZeroPageX", "ZeroPageY"}) =>
    /\ why \notin {"address", "mode"}
    /\ ~panicked =>
         LET index == IF Last.arg[1] = "ZeroPageX" THEN Last.before.x
                      ELSE Last.before.y
             sum == Operand + index
         IN  /\ Last.ret = IF sum >= 256 THEN sum - 256 ELSE sum
             /\ Last.ret \in 0..255

\* Operand $FF with X = 1 resolves to $0000, and with Y = 1 likewise.
C13_Witness ==
  /\ Last.op = "get_operand_address" /\ Last.arg[1] = "ZeroPageX"
  /\ Operand = 255 /\ Last.before.x = 1 /\ Last.ret = 0
  /\ ~panicked

\* C14: for IndirectX the resolver returns the 16-bit pointer stored in zero
\* page at ptr = (op + X) mod 256, its bytes read at ptr and (ptr + 1) mod 256,
\* and not the location ptr.
C14_IndirectXDereferences ==
  (Last.op = "get_operand_address" /\ Last.arg[1] = "IndirectX"
     /\ ~panicked) =>
    LET ptr == (Operand + Last.before.x) % 256
    IN  Last.ret = ZeroPagePointer(Last.before.bus, ptr)

\* C15: for IndirectY the resolver returns the zero-page pointer at op plus
\* Y, and a page crossing between the pointer and that address costs the
\* page-boundary penalty handed to the resolver.
C15_IndirectYDereferencesThenIndexes ==
  (Last.op = "get_operand_address" /\ Last.arg[1] = "IndirectY"
     /\ ~panicked) =>
    LET pointer == ZeroPagePointer(Last.before.bus, Operand)
        address == (pointer + Last.before.y) % 65536
    IN  /\ Last.ret = address
        /\ sumCycles - Last.before.total =
             IF pointer \div 256 # address \div 256 THEN Last.arg[2] ELSE 0

\* The table entry of the opcode the last tick() executed, and the 16-bit
\* operand that follows the opcode.
LastEntry == OpEntry(Last.arg)
Operand16 == read_u16(Last.before.bus, wrapping_add16(Last.before.pc, 1))

\* C16: a tick() of an abs,X or abs,Y instruction adds the base cycles, plus
\* one when the entry's penalty flag is 1 and base and base + index lie in
\* different pages; LDA abs,X ($BD) and LDA abs,Y ($B9) have the flag.
C16_IndexedPageCrossPenalty ==
  (Last.op = "tick" /\ LastEntry.mode \in {"abx", "aby"} /\ ~panicked) =>
    LET index == IF LastEntry.mode = "abx" THEN Last.before.x
                 ELSE Last.before.y
        crossed == Operand16 \div 256 # ((Operand16 + index) % 65536) \div 256
    IN  /\ sumCycles - Last.before.total =
             LastEntry.cycles
               + (IF crossed /\ LastEntry.extra = 1 THEN 1 ELSE 0)
        /\ Last.arg \in {189, 185} => LastEntry.extra = 1

\* Whether the branch opcode finds its condition true in status byte v.
BranchTaken(opcode, v) ==
  CASE opcode = 16  -> BitAnd(v, 128) = 0
    [] opcode = 48  -> BitAnd(v, 128) # 0
    [] opcode = 80  -> BitAnd(v, 64) = 0
    [] opcode = 112 -> BitAnd(v, 64) # 0
    [] opcode = 144 -> BitAnd(v, 1) = 0
    [] opcode = 176 -> BitAnd(v, 1) # 0
    [] opcode = 208 -> BitAnd(v, 2) = 0
    [] opcode = 240 -> BitAnd(v, 2) # 0

\* C17: a tick() of a branch adds 2 cycles when the branch is not taken, 3
\* when it is taken to a target in the page of the PC after the operand
\* fetch, and 4 when it is taken to a target in another page.
C17_BranchCycles ==
  (Last.op = "tick" /\ Last.arg \in {16, 48, 80, 112, 144, 176, 208, 240}
     /\ ~panicked) =>
    LET next == wrapping_add16(Last.before.pc, 2)
        offset == read_u8(Last.before.bus, wrapping_add16(Last.before.pc, 1))
        target == (next + (IF offset >= 128 THEN offset - 256 ELSE offset))
                    % 65536
        taken == BranchTaken(Last.arg, Last.before.p)
    IN  /\ pc = IF taken THEN target ELSE next
        /\ sumCycles - Last.before.total =
             IF ~taken THEN 2
             ELSE IF target \div 256 = next \div 256 THEN 3
             ELSE 4

\* Operand bytes that follow an opcode of the given table mode.
OperandLength(m) ==
  CASE m \in {"non", "imp"} -> 0
    [] m \in {"imm", "zp", "zpx", "zpy", "izx", "izy", "rel"} -> 1
    [] m \in {"abs", "abx", "aby", "ind"} -> 2

\* The last tick() executed an instruction that writes PC: a jump, a
\* subroutine call or return, an interrupt entry or return, a taken branch.
LastWritesPc ==
  \/ LastEntry.name \in {"jmp", "jsr", "rts", "rti", "brk"}
  \/ LastEntry.mode = "rel" /\ BranchTaken(Last.arg, Last.before.p)

\* C18: after a tick() of a running CPU, PC is the pre-tick PC plus 1 plus
\* the operand length (modulo 65536) when the instruction does not write PC;
\* in every case PC differs from its pre-tick value unless the instruction
\* wrote that value to PC or the CPU is halted.
C18_PcAdvances ==
  (Last.op = "tick" /\ ~panicked /\ ~halted) =>
    /\ ~LastWritesPc =>
         pc = (Last.before.pc + 1 + OperandLength(LastEntry.mode)) % 65536
    /\ pc # Last.before.pc \/ LastWritesPc

\* STY abs, a three-byte instruction, has moved PC from $0206 to $0209.
C18_Witness ==
  /\ Last.op = "tick" /\ Last.arg = 140 /\ ~panicked /\ ~halted
  /\ Last.before.pc = 518 /\ pc = 521

\* C19: run_until makes no tick() when the predicate holds at the call, makes
\* no tick() in a state where the predicate holds, and makes no tick() once
\* the CPU has halted, so that it returns even if the predicate never holds.
C19_RunUntilStopsOnPredicateOrHalt ==
  /\ []((frame.fn = "run_until" /\ frame.arg.held) => ticks = frame.arg.since)
  /\ [][frame.fn = "run_until" =>
          /\ Predicate(frame.arg.predicate, Cpu) => ticks' = ticks
          /\ halted => ticks' = ticks]_vars

\* C20: no tick() fails on a 16-bit addition of the fetch or of the resolver:
\* a fetch at $FFFF leaves PC = (PC + n) mod 65536, and LDA abs,X / abs,Y
\* loads from (base + index) mod 65536.
C20_AddressArithmeticWraps ==
  /\ why \notin {"pc", "address"}
  /\ (Last.op = "tick" /\ ~panicked /\ ~LastWritesPc) =>
       pc = (Last.before.pc + 1 + OperandLength(LastEntry.mode)) % 65536
  /\ (Last.op = "tick" /\ ~panicked /\ Last.arg \in {189, 185}) =>
       LET index == IF Last.arg = 189 THEN Last.before.x ELSE Last.before.y
       IN  a = read_u8(Last.before.bus, (Operand16 + index) % 65536)

\* C21: get_operand_address with Mode::Implied or Mode::None panics and
\* returns no address; with every other mode it returns an address and does
\* not fail.
C21_ResolverFailsOnlyOnImpliedAndNone ==
  Last.op = "get_operand_address" =>
    IF Last.arg[1] \in {"Implied", "None"}
    THEN panicked /\ why = "mode"
    ELSE ~panicked /\ Last.ret \in 0..65535

\* C22, as stated: new(bus) writes no bus byte, loads PC from $FFFC/$FFFD and
\* leaves S three below its value before the reset, which is $00 at power-on
\* or $FF, the value the constructor names.
C22_NewDecrementsStackByThree ==
  (ticks = 0 /\ calls = 0 /\ frame.fn = "none") =>
    /\ bus = Last.arg
    /\ pc = read_u16(Last.arg, 65532)
    /\ \E before \in {0, 255} : s = wrapping_sub8(before, 3)

\* C22, amended: new(bus) writes no bus byte, loads PC from $FFFC/$FFFD and
\* sets S to $FF; no decrement by 3 takes place.
C22_NewSetsStackTop ==
  (ticks = 0 /\ calls = 0 /\ frame.fn = "none") =>
    /\ Last.op = "new"
    /\ bus = Last.arg
    /\ pc = read_u16(Last.arg, 65532)
    /\ s = 255
    /\ \A before \in {0, 255} : s # wrapping_sub8(before, 3)

\* new on the BRK image: PC = $0200 from the vector, S = $FF, bus untouched.
C22_Witness ==
  /\ ticks = 0 /\ calls = 0 /\ Last.op = "new"
  /\ bus = ProgBrk /\ Last.arg = ProgBrk
  /\ pc = read_u16(ProgBrk, 65532) /\ s = 255

\* The call made i calls before the most recent one.
Earlier(i) == hist[Len(hist) - i]

\* C23: a push writes no stack-page cell above S, and, when S does not wrap,
\* push_stack_u8(v); push_stack_u16(w); pull_stack_u16(); pull_stack_u8()
\* returns w and then v, and push_stack_u16(v); push_stack_u16(w) followed by
\* two pull_stack_u16() returns w and then v.
C23_StackIsLifoAcrossWidths ==
  /\ Last.op \in {"push_stack_u8", "push_stack_u16"} =>
       \A address \in Last.touched :
         ~(address \in 256..511 /\ address > 256 + Last.before.s)
  /\ (/\ Len(hist) >= 4
      /\ Earlier(3).op = "push_stack_u8" /\ Earlier(2).op = "push_stack_u16"
      /\ Earlier(1).op = "pull_stack_u16" /\ Earlier(0).op = "pull_stack_u8"
      /\ Earlier(3).before.s >= 3) =>
       Earlier(1).ret = Earlier(2).arg /\ Earlier(0).ret = Earlier(3).arg
  /\ (/\ Len(hist) >= 4
      /\ Earlier(3).op = "push_stack_u16" /\ Earlier(2).op = "push_stack_u16"
      /\ Earlier(1).op = "pull_stack_u16" /\ Earlier(0).op = "pull_stack_u16"
      /\ Earlier(3).before.s >= 4) =>
       Earlier(1).ret = Earlier(2).arg /\ Earlier(0).ret = Earlier(3).arg

\* Operand bytes the resolver fetches for a mode.
ModeOperandLength(mode) ==
  CASE mode \in {"Immediate", "ZeroPage", "ZeroPageX", "ZeroPageY",
                 "IndirectX", "IndirectY", "Relative"} -> 1
    [] mode \in {"Absolute", "AbsoluteIndexedX", "AbsoluteIndexedY",
                 "Indirect"} -> 2
    [] OTHER -> 0

\* C24: a get_operand_address call that returns has moved PC by the operand
\* length of the mode (1 or 2, modulo 65536), has returned the old PC for
\* Immediate, has written no bus byte and has left A, X, Y, S and P alone.
C24_ResolverFrame ==
  (Last.op = "get_operand_address" /\ ~panicked) =>
    /\ ModeOperandLength(Last.arg[1]) \in {1, 2}
    /\ pc = (Last.before.pc + ModeOperandLength(Last.arg[1])) % 65536
    /\ Last.arg[1] = "Immediate" => Last.ret = Last.before.pc
    /\ bus = Last.before.bus /\ Last.touched = {}
    /\ a = Last.before.a /\ x = Last.before.x /\ y = Last.before.y
    /\ s = Last.before.s /\ p = Last.before.p

\* ZeroPageX at $02FC with X = $FF has moved PC to $02FD and nothing else.
C24_Witness ==
  /\ Last.op = "get_operand_address" /\ ~panicked
  /\ Last.arg[1] = "ZeroPageX" /\ Last.before.pc = 764 /\ pc = 765
  /\ Last.before.x = 255

\* C25: for Relative the resolver returns (PC after the operand byte + op
\* read as a signed byte in -128..127) mod 65536.
C25_RelativeTarget ==
  (Last.op = "get_operand_address" /\ Last.arg[1] = "Relative"
     /\ ~panicked) =>
    LET signed == IF Operand >= 128 THEN Operand - 256 ELSE Operand
        after == (Last.before.pc + 1) % 65536
    IN  /\ signed \in -128..127
        /\ pc = after
        /\ Last.ret = (after + signed + 65536) % 65536

\* Operand $FE at p = $0200 resolves to p - 1 = $01FF.
C25_Witness ==
  /\ Last.op = "get_operand_address" /\ Last.arg[1] = "Relative" /\ ~panicked
  /\ Last.before.pc = 512 /\ Operand = 254 /\ Last.ret = 511

\* Bit k of v, and v without its bits 1 (Z) and 7 (N).
Bit(v, k) == (v \div 2^k) % 2
OtherThanZN(v) == v - 2 * Bit(v, 1) - 128 * Bit(v, 7)

\* C26: update_zero_and_negative_flag(v) leaves Z = (v = 0) and N = bit 7 of
\* v, and changes no other bit of P, no register and no bus byte.
C26_ZeroNegativeFrame ==
  Last.op = "update_zero_and_negative_flag" =>
    /\ Bit(p, 1) = (IF Last.arg = 0 THEN 1 ELSE 0)
    /\ Bit(p, 7) = (IF Last.arg >= 128 THEN 1 ELSE 0)
    /\ OtherThanZN(p) = OtherThanZN(Last.before.p)
    /\ a = Last.before.a /\ x = Last.before.x /\ y = Last.before.y
    /\ s = Last.before.s /\ pc = Last.before.pc
    /\ cycles = Last.before.cycles
    /\ bus = Last.before.bus
    /\ ~panicked

\* v = $40 on P = %11111111 has cleared Z and N and kept the other six bits.
C26_Witness ==
  /\ Last.op = "update_zero_and_negative_flag" /\ Last.arg = 64
  /\ Last.before.p = 255 /\ p = 125

\* C27: update_carry_flag(t), t = A + M + C in 0..$1FF, leaves C = (t > $FF);
\* update_overflow_flag(M, t mod 256) with the accumulator still A leaves V
\* set iff A and M have the same bit 7 and the result's bit 7 differs, which
\* is (~(A^M) & (A^t) & $80) # 0.
C27_AdcFlags ==
  /\ Last.op = "update_carry_flag" =>
       /\ Last.arg \in 0..511
       /\ Bit(p, 0) = (IF Last.arg > 255 THEN 1 ELSE 0)
       /\ p - Bit(p, 0) = Last.before.p - Bit(Last.before.p, 0)
  /\ Last.op = "update_overflow_flag" =>
       LET A == Last.before.a
           M == Last.arg[1]
           t == A + M + Bit(Last.before.p, 0)
       IN  /\ Last.arg[2] = t % 256
           /\ a = A
           /\ Bit(p, 6) = (IF Bit(A, 7) = Bit(M, 7) /\ Bit(A, 7) # Bit(t, 7)
                           THEN 1 ELSE 0)
           /\ p - 64 * Bit(p, 6) = Last.before.p - 64 * Bit(Last.before.p, 6)

\* A = $50, M = $50, carry clear: update_carry_flag($A0) has left C = 0 and
\* update_overflow_flag($50, $A0) has then set V.
C27_Witness ==
  /\ Len(hist) >= 2
  /\ Prev.op = "update_carry_flag" /\ Prev.arg = 160 /\ Prev.before.a = 80
  /\ Last.op = "update_overflow_flag" /\ Last.arg = <<80, 160>>
  /\ a = 80 /\ Bit(p, 0) = 0 /\ Bit(p, 6) = 1

\* C28: run() makes a tick() only in a state where the byte at PC is not the
\* KIL opcode value, so it never executes that opcode; it returns only from a
\* state where the byte at PC is KIL, leaving that state as it is; it makes
\* no tick() when the first opcode is KIL; while the byte at PC is not KIL it
\* does not return.
C28_RunStopsBeforeKil ==
  /\ []((frame.fn = "run" /\ frame.arg.held) => ticks = frame.arg.since)
  /\ [][frame.fn = "run" =>
          /\ ticks' # ticks => read_u8(bus, pc) # KIL
          /\ frame'.fn # "run" =>
               /\ read_u8(bus, pc) = KIL
               /\ UNCHANGED <<bus, a, x, y, pc, s, p, cycles, ticks>>
          /\ read_u8(bus, pc) # KIL => frame'.fn = "run"]_vars

\* run() on JSR $0410 / RTS / KIL has returned after two ticks, PC at the KIL.
C28_Witness ==
  /\ Last.op = "run" /\ frame.fn = "none"
  /\ hist[1].op = "new" /\ hist[1].arg = ProgJsrPage
  /\ ticks = 2 /\ pc = 769
  /\ read_u8(bus, pc) = KIL /\ ~halted

Lines == frame.arg.lines

\* C30: every line of the listing consumes the opcode byte and the operand
\* bytes of the opcode's mode (0, 1 or 2), so that the next line starts at
\* the next instruction, and the address computed for a Relative operand is
\* the one get_operand_address returns for that branch.
C30_ListingAgreesWithCpu ==
  (frame.fn = "main" /\ frame.arg.last_drawn_tick_count = ticks
     /\ ~panicked) =>
    \A i \in 1..Len(Lines) :
      LET line == Lines[i]
          fetched == [Cpu EXCEPT !.pc = wrapping_add16(line.at, 1)]
      IN  ~line.failed =>
            /\ line.next =
                 (line.at + 1 + ModeOperandLength(line.mode)) % 65536
            /\ i < Len(Lines) => Lines[i + 1].at = line.next
            /\ line.mode = "Relative" =>
                 LET r == get_operand_address(fetched, "Relative", 0)
                 IN  r.cpu.panicked \/ line.address = r.address

=============================================================================
